---- MODULE Spec2Model ----
(***************************************************************************)
(* A model of hw/vfio.c: VFIO based PCI device assignment.                 *)
(*                                                                         *)
(* The device state (VFIODevice) is a record; every C function that        *)
(* changes it is an operator from records to records, composed the way the *)
(* C code calls them.  Calls that leave the process (ioctl, pread, pwrite, *)
(* the QEMU PCI/MSI/timer/notifier framework) update the fields `kernel',  *)
(* `hw' and `qemu' of the record, which stand for the state those          *)
(* collaborators keep on behalf of the device, and are appended to `log',  *)
(* the calls issued by the handler that ran last.                          *)
(***************************************************************************)
EXTENDS Integers, Sequences, FiniteSets, TLC

(***************************************************************************)
(* Bounds of the model.                                                    *)
(***************************************************************************)
NumDevs == 2
MaxTimers == 2
MaxMapPages == 2
MaxNotifiers == 2
MaxFds == 3

(***************************************************************************)
(* Program constants.                                                      *)
(***************************************************************************)
INT_NONE == 0
INT_INTx == 1
INT_MSI == 2
INT_MSIX == 3

MSIX_CAP_LENGTH == 12
MSIX_PAGE_SIZE == 4096

PCI_CONFIG_SPACE_SIZE == 256
PCI_CONFIG_HEADER_SIZE == 64
PCI_CAP_SIZEOF == 4
PCI_STATUS == 6
PCI_STATUS_CAP_LIST == 16
PCI_CAPABILITY_LIST == 52
PCI_CAP_LIST_ID == 0
PCI_CAP_LIST_NEXT == 1
PCI_CAP_FLAGS == 2
PCI_CAP_ID_MSI == 5
PCI_CAP_ID_MSIX == 17
PCI_MSI_FLAGS_ENABLE == 1
PCI_MSI_FLAGS_QSIZE == 112
PCI_MSI_FLAGS_64BIT == 128
PCI_MSI_FLAGS_MASKBIT == 256
PCI_MSIX_TABLE == 4
PCI_MSIX_BIR == 7
PCI_MSIX_TABSIZE == 2047
MSIX_ENABLE_MASK == 128
MSIX_MASKALL_MASK == 64
PCI_INTERRUPT_LINE == 60
PCI_INTERRUPT_PIN == 61
PCI_ROM_ADDRESS == 48
PCI_BASE_ADDRESS_0 == 16
PCI_ROM_SLOT == 6
PCI_COMMAND == 4
REMOVE_TIMEOUT_MS == 30000
TARGET_PAGE_SIZE == 4096
IO_MEM_RAM == 0
IO_MEM_UNASSIGNED == 16
EBUSY == 16
EINVAL == 22
EIO == 5
VFIO_MAX_MAP_SIZE == MaxMapPages * TARGET_PAGE_SIZE

Devices == 1..NumDevs

(***************************************************************************)
(* Machine arithmetic.                                                     *)
(***************************************************************************)
RECURSIVE BitAnd(_, _)
BitAnd(a, b) ==
    IF a = 0 \/ b = 0 THEN 0
    ELSE (IF a % 2 = 1 /\ b % 2 = 1 THEN 1 ELSE 0) + 2 * BitAnd(a \div 2, b \div 2)

RECURSIVE Pow2(_)
Pow2(n) == IF n = 0 THEN 1 ELSE 2 * Pow2(n - 1)

\* byte i (little endian) of the 32-bit value val
ByteOf(val, i) == (val \div Pow2(8 * i)) % 256

\* the low len bytes of val; values stay below 2^31, so four bytes hold all
LowBytes(val, len) == IF len >= 4 THEN val ELSE val % Pow2(8 * len)

Min(a, b) == IF a < b THEN a ELSE b

\* the element of a singleton: Pick({body : x \in {v}}) is body with x bound
\* to the value v, which is computed once
Pick(S) == CHOOSE r \in S : TRUE

\* range.h: two byte ranges share at least one byte
ranges_overlap(first1, len1, first2, len2) ==
    ~(first1 + len1 - 1 < first2 \/ first2 + len2 - 1 < first1)

(***************************************************************************)
(* Byte images (config space, write masks): only nonzero bytes are stored, *)
(* so that equal images are equal values.                                  *)
(***************************************************************************)
EmptyImg == [a \in {} |-> 0]

Get(img, a) == IF a \in DOMAIN img THEN img[a] ELSE 0

Put(img, a, b) ==
    IF b = 0 THEN [x \in (DOMAIN img) \ {a} |-> img[x]]
    ELSE [x \in (DOMAIN img) \cup {a} |-> IF x = a THEN b ELSE img[x]]

\* the little-endian value of the len bytes at addr
RECURSIVE GetLE(_, _, _)
GetLE(img, addr, len) ==
    IF len = 0 THEN 0
    ELSE Get(img, addr) + 256 * GetLE(img, addr + 1, len - 1)

\* bytes [addr, addr+len) of img replaced, under the per-byte write mask
\* wmask, by the low len bytes of val
RECURSIVE PutMasked(_, _, _, _, _)
PutMasked(img, wmask, addr, val, len) ==
    IF len = 0 \/ addr >= PCI_CONFIG_SPACE_SIZE THEN img
    ELSE LET w == Get(wmask, addr)
             b == BitAnd(Get(img, addr), 255 - w) + BitAnd(val % 256, w)
         IN  PutMasked(Put(img, addr, b), wmask, addr + 1, val \div 256, len - 1)

(***************************************************************************)
(* The physical function behind the channel.  Its config space is what a   *)
(* positioned read at VFIO_PCI_CONFIG_OFF returns; a positioned write is   *)
(* filtered by the device: only the bits of HwWmask change.                *)
(*   pin   the value of the interrupt-pin register                         *)
(*   msi   the capability list holds an MSI capability (at 0x50)           *)
(*   msix  the capability list holds an MSI-X capability (at 0x60), two    *)
(*         entries                                                         *)
(*   table_bar, table_off  the MSI-X table's BAR and offset in it          *)
(*   bars  per BAR slot its length and kind ("mem", "mem64" or "io")       *)
(***************************************************************************)
MsiPos == 80
MsixPos == 96
DevSpecific == 128

BarSlots == 0..(PCI_ROM_SLOT - 1)

NoBar == [len |-> 0, kind |-> "mem"]

NoBars == [i \in BarSlots |-> NoBar]

\* the low byte of a BAR register: bit 0 I/O space, bit 2 64-bit memory
BarFlags(b) == IF b.kind = "io" THEN 1 ELSE IF b.kind = "mem64" THEN 4 ELSE 0

RECURSIVE BarImage(_, _)
BarImage(bars, i) ==
    IF i >= PCI_ROM_SLOT THEN EmptyImg
    ELSE (IF bars[i].len # 0 /\ BarFlags(bars[i]) # 0
          THEN (PCI_BASE_ADDRESS_0 + 4 * i :> BarFlags(bars[i])) ELSE EmptyImg)
         @@ BarImage(bars, i + 1)

HwImage(p) ==
    LET first == IF p.msi THEN MsiPos ELSE IF p.msix THEN MsixPos ELSE 0
        ids   == (0 :> 134) @@ (1 :> 128) @@ (2 :> 14) @@ (3 :> 16)
        hdr   == IF first # 0
                 THEN (PCI_STATUS :> PCI_STATUS_CAP_LIST) @@ (PCI_CAPABILITY_LIST :> first)
                 ELSE EmptyImg
        pin   == IF p.pin # 0 THEN (PCI_INTERRUPT_PIN :> p.pin) ELSE EmptyImg
        msi   == IF p.msi
                 THEN (MsiPos :> PCI_CAP_ID_MSI) @@ (MsiPos + PCI_CAP_FLAGS :> 2)
                      @@ (IF p.msix THEN (MsiPos + PCI_CAP_LIST_NEXT :> MsixPos) ELSE EmptyImg)
                 ELSE EmptyImg
        tbl   == p.table_off + p.table_bar
        msix  == IF p.msix
                 THEN (MsixPos :> PCI_CAP_ID_MSIX) @@ (MsixPos + PCI_CAP_FLAGS :> 1)
                      @@ [a \in {MsixPos + PCI_MSIX_TABLE + x : x \in {y \in 0..3 : ByteOf(tbl, y) # 0}}
                            |-> ByteOf(tbl, a - MsixPos - PCI_MSIX_TABLE)]
                 ELSE EmptyImg
    IN  ids @@ hdr @@ pin @@ msi @@ msix @@ BarImage(p.bars, 0)

HwWmask(p) ==
    (PCI_COMMAND :> 255) @@ (PCI_COMMAND + 1 :> 7) @@ (PCI_INTERRUPT_LINE :> 255)
    @@ [a \in DevSpecific..(DevSpecific + 3) |-> 255]
    @@ (IF p.msi THEN (MsiPos + PCI_CAP_FLAGS :> 113)
                      @@ [a \in (MsiPos + 4)..(MsiPos + 9) |-> 255]
        ELSE EmptyImg)
    @@ (IF p.msix THEN (MsixPos + PCI_CAP_FLAGS + 1 :> 192) ELSE EmptyImg)

(***************************************************************************)
(* VFIODevice (vfio_pci.h) with the state its collaborators keep for it.   *)
(***************************************************************************)
\* a mapping of the BAR's backing resource: mmap(NULL, len, .., vfiofd, bar + off)
NoMapping == [bar |-> -1, off |-> 0, len |-> 0]

NoResource ==
    [ valid |-> FALSE, mem |-> FALSE, slow |-> FALSE, size |-> 0, bar |-> 0,
      msix |-> FALSE, msix_offset |-> 0,
      r_virtbase |-> <<NoMapping, NoMapping>>,
      io_mem |-> FALSE, e_phys |-> 0, e_size |-> 0 ]

NoDevice ==
    [ attached        |-> FALSE,
      \* the host= property: which host function the device passes through
      host            |-> 0,
      \* qdev properties: vfiofd= and uiommufd= (0: not given), the
      \* shared_uiommu_domain flag
      vfiofd_name     |-> 0,
      uiommufd_name   |-> 0,
      shared          |-> TRUE,
      vfiofd          |-> 0,
      uiommu          |-> 0,
      remove_timer    |-> 0,
      interrupt       |-> INT_NONE,
      nr_vectors      |-> 0,
      msi_vectors     |-> "null",
      intx            |-> [pending |-> FALSE, pin |-> 0, irq |-> 0],
      \* PCIDevice: the emulated image and what msi_init/msix_init recorded
      config          |-> EmptyImg,
      wmask           |-> EmptyImg,
      cap_present     |-> {},
      msi_cap         |-> 0,
      msi_cap_size    |-> 0,
      msix_cap        |-> 0,
      msix_entries_nr |-> 0,
      resources       |-> [i \in BarSlots |-> NoResource],
      \* the physical function
      hw              |-> [config |-> EmptyImg, wmask |-> EmptyImg,
                           bar_len |-> [i \in BarSlots |-> 0]],
      \* the kernel channel: what is registered on the device's descriptor
      kernel          |-> [intx |-> FALSE, msi |-> 0, msix |-> 0, masked |-> FALSE,
                           domain |-> 0],
      \* QEMU: notifier lists, event notifiers, the guest's interrupt line
      qemu            |-> [eoi |-> <<>>, update_irq |-> 0, route |-> 10,
                           intx_notifier |-> FALSE, intx_handler |-> FALSE,
                           vec_notifiers |-> 0, msix_used |-> 0, irq_level |-> 0,
                           mmaps |-> {}, ram |-> {}, io_mems |-> {},
                           pci_bars |-> {}, guest_map |-> {}, unplug |-> 0],
      log             |-> <<>>,
      ret             |-> 0 ]

\* the kinds of interrupt registration live on the kernel channel
Live(s) ==
    (IF s.kernel.intx THEN {INT_INTx} ELSE {})
    \cup (IF s.kernel.msi > 0 THEN {INT_MSI} ELSE {})
    \cup (IF s.kernel.msix > 0 THEN {INT_MSIX} ELSE {})

\* one call leaving the process, with what was live when it was issued
Emit(s, call, arg) ==
    [s EXCEPT !.log = Append(@, [call |-> call, arg |-> arg, live |-> Live(s)])]

(***************************************************************************)
(* What may fail or vary in one handler run.                               *)
(***************************************************************************)
NoFail == [slot |-> -1, kind |-> "none"]

AllOk == [pread_ok |-> TRUE, pwrite_ok |-> TRUE, notifier_ok |-> TRUE,
          intx_ioctl_ok |-> TRUE, msi_ioctl_ok |-> TRUE, cap_init_ok |-> TRUE,
          bar_fail |-> NoFail, host_ok |-> TRUE, vfio_ok |-> TRUE, nl_ok |-> TRUE,
          uiommu_open_ok |-> TRUE, uiommu_ok |-> TRUE, config_read_ok |-> TRUE,
          \* the n-th VFIO_MAP_DMA of the handler fails with EIO (0: none does)
          dma_fail |-> 0, unmap_ok |-> TRUE]

\* the interrupt-related outcomes, everything else succeeding
IrqEnvs ==
    {[AllOk EXCEPT !.notifier_ok = n, !.intx_ioctl_ok = i, !.msi_ioctl_ok = m] :
        n \in BOOLEAN, i \in BOOLEAN, m \in BOOLEAN}

(***************************************************************************)
(* PCI config space.                                                       *)
(***************************************************************************)
pci_default_read_config(s, addr, len) == GetLE(s.config, addr, len)

pci_default_write_config(s, addr, val, len) ==
    [s EXCEPT !.config = PutMasked(s.config, s.wmask, addr, val, len)]

msi_enabled(s) ==
    BitAnd(Get(s.config, s.msi_cap + PCI_CAP_FLAGS), PCI_MSI_FLAGS_ENABLE) # 0

msix_enabled(s) ==
    BitAnd(Get(s.config, s.msix_cap + PCI_CAP_FLAGS + 1), MSIX_ENABLE_MASK) # 0

msi_nr_vectors_allocated(s) ==
    Pow2(BitAnd(Get(s.config, s.msi_cap + PCI_CAP_FLAGS), PCI_MSI_FLAGS_QSIZE) \div 16)

\* fault: only the option ROM address register is served locally
InEmulatedWindow_rom_only(s, addr, len) == ranges_overlap(addr, len, PCI_ROM_ADDRESS, 4)

\* the windows served from the emulated image
InEmulatedWindow(s, addr, len) ==
    \/ ranges_overlap(addr, len, PCI_ROM_ADDRESS, 4)
    \/ ("MSIX" \in s.cap_present
        /\ ranges_overlap(addr, len, s.msix_cap, MSIX_CAP_LENGTH))
    \/ ("MSI" \in s.cap_present
        /\ ranges_overlap(addr, len, s.msi_cap, s.msi_cap_size))

\* fault: every read is served from the emulated image
vfio_pci_read_config_emulated(s, addr, len, e) ==
    pci_default_read_config(s, addr, len)

vfio_pci_read_config(s, addr, len, e) ==
    IF InEmulatedWindow(s, addr, len)
    THEN pci_default_read_config(s, addr, len)
    ELSE IF e.pread_ok THEN GetLE(s.hw.config, addr, len)
         ELSE -1

\* pwrite(vfiofd, &val, len, VFIO_PCI_CONFIG_OFF + addr)
hw_config_write(s, addr, val, len, e) ==
    IF e.pwrite_ok
    THEN [Emit(s, "pwrite", <<addr, len, LowBytes(val, len)>>)
            EXCEPT !.hw.config = PutMasked(s.hw.config, s.hw.wmask, addr, val, len)]
    ELSE Emit(s, "pwrite_failed", <<addr, len, LowBytes(val, len)>>)

(***************************************************************************)
(* INTx                                                                    *)
(***************************************************************************)
RemoveLast(q) == IF q = <<>> THEN q ELSE SubSeq(q, 1, Len(q) - 1)

vfio_unmask_intx(s) ==
    [Emit(s, "VFIO_UNMASK_IRQ", 0) EXCEPT !.kernel.masked = FALSE]

\* the device's eventfd became readable: the physical line fired (the kernel
\* masks it) and the handler runs
vfio_intx_interrupt(s) ==
    [s EXCEPT !.intx.pending = TRUE, !.qemu.irq_level = 1]

\* fault: the end of interrupt unmasks the line whether or not an
\* interrupt is pending
vfio_eoi_always(s) ==
    vfio_unmask_intx([s EXCEPT !.intx.pending = FALSE, !.qemu.irq_level = 0])

vfio_eoi(s) ==
    IF ~s.intx.pending THEN s
    ELSE vfio_unmask_intx([s EXCEPT !.intx.pending = FALSE, !.qemu.irq_level = 0])

\* pci_get_irq() returns s.qemu.route, the line the pin is routed to
\* fault: the notifier is added on the new line and left on the old one
vfio_update_irq_keep_old(s) ==
    LET irq == s.qemu.route IN
    IF irq = s.intx.irq THEN s
    ELSE LET s1 == [s EXCEPT !.intx.irq = irq] IN
         IF irq < 0 THEN s1
         ELSE vfio_eoi([s1 EXCEPT !.qemu.eoi = Append(@, irq)])

vfio_update_irq(s) ==
    LET irq == s.qemu.route IN
    IF irq = s.intx.irq THEN s
    ELSE LET s1 == [s EXCEPT !.qemu.eoi = RemoveLast(@), !.intx.irq = irq] IN
         IF irq < 0 THEN s1
         ELSE vfio_eoi([s1 EXCEPT !.qemu.eoi = Append(@, irq)])

RECURSIVE vfio_disable_interrupts(_, _)
RECURSIVE vfio_enable_intx(_, _)
RECURSIVE vfio_disable_msi(_, _, _)

vfio_disable_intx(s) ==
    LET s1 == [Emit(s, "VFIO_SET_IRQ_EVENTFD", -1) EXCEPT !.kernel.intx = FALSE]
    IN  [s1 EXCEPT !.qemu.update_irq = IF @ > 0 THEN @ - 1 ELSE 0,
                   !.qemu.eoi = RemoveLast(@),
                   !.qemu.intx_handler = FALSE,
                   !.qemu.intx_notifier = FALSE,
                   !.interrupt = INT_NONE]

vfio_enable_intx(s, e) ==
    Pick({
        IF pin = 0 THEN [s EXCEPT !.ret = 0]
        ELSE Pick({
            IF ~e.notifier_ok THEN [s2 EXCEPT !.ret = -1]
            ELSE IF ~e.intx_ioctl_ok
            THEN [Emit([s2 EXCEPT !.qemu.intx_notifier = TRUE, !.qemu.intx_handler = TRUE],
                       "VFIO_SET_IRQ_EVENTFD_failed", 1) EXCEPT !.ret = -1]
            ELSE [vfio_unmask_intx(
                      [Emit([s2 EXCEPT !.qemu.intx_notifier = TRUE,
                                       !.qemu.intx_handler = TRUE],
                            "VFIO_SET_IRQ_EVENTFD", 1)
                          EXCEPT !.kernel.intx = TRUE, !.interrupt = INT_INTx])
                    EXCEPT !.ret = 0]
            : s2 \in {Pick({[s1 EXCEPT !.intx.pin = pin - 1,
                                       !.intx.irq = s1.qemu.route,
                                       !.qemu.eoi = Append(@, s1.qemu.route),
                                       !.qemu.update_irq = @ + 1]
                            : s1 \in {vfio_disable_interrupts(s, e)}})}})
        : pin \in {vfio_pci_read_config(s, PCI_INTERRUPT_PIN, 1, e) % 256}})

(***************************************************************************)
(* MSI/X                                                                   *)
(***************************************************************************)
SetVectorsCall(msix) == IF msix THEN "VFIO_SET_MSIX_EVENTFDS" ELSE "VFIO_SET_MSI_EVENTFDS"

\* the kernel's vector registration of the given kind becomes n
KernelVectors(s, msix, n) ==
    IF msix THEN [s EXCEPT !.kernel.msix = n] ELSE [s EXCEPT !.kernel.msi = n]

\* one notifier and fd handler per vector, MSI-X vectors marked used
AllocVectors(s1, msix, nr) ==
    [s1 EXCEPT !.nr_vectors = nr,
               !.msi_vectors = "allocated",
               !.qemu.vec_notifiers = @ + nr,
               !.qemu.msix_used = IF msix THEN @ + nr ELSE @]

\* fault: a failed registration leaves the vectors of the attempt in place
vfio_enable_msi_no_unwind(s, msix, e) ==
    Pick({
        IF ~e.msi_ioctl_ok
        THEN Emit(s2, SetVectorsCall(msix) \o "_failed", s2.nr_vectors)
        ELSE [KernelVectors(Emit(s2, SetVectorsCall(msix), s2.nr_vectors), msix, s2.nr_vectors)
                 EXCEPT !.interrupt = IF msix THEN INT_MSIX ELSE INT_MSI]
        : s2 \in {Pick({AllocVectors(s1, msix, IF msix THEN s1.msix_entries_nr
                                                ELSE msi_nr_vectors_allocated(s1))
                        : s1 \in {vfio_disable_interrupts(s, e)}})}})

vfio_enable_msi(s, msix, e) ==
    Pick({
        IF ~e.msi_ioctl_ok
        THEN [Emit(s2, SetVectorsCall(msix) \o "_failed", s2.nr_vectors)
                 EXCEPT !.qemu.msix_used = IF msix THEN @ - s2.nr_vectors ELSE @,
                        !.qemu.vec_notifiers = @ - s2.nr_vectors,
                        !.msi_vectors = "freed",
                        !.nr_vectors = 0]
        ELSE [KernelVectors(Emit(s2, SetVectorsCall(msix), s2.nr_vectors), msix, s2.nr_vectors)
                 EXCEPT !.interrupt = IF msix THEN INT_MSIX ELSE INT_MSI]
        : s2 \in {Pick({AllocVectors(s1, msix, IF msix THEN s1.msix_entries_nr
                                                ELSE msi_nr_vectors_allocated(s1))
                        : s1 \in {vfio_disable_interrupts(s, e)}})}})

\* the vectors' notifiers and the vector array are released
FreeVectors(s1, msix, nr) ==
    [s1 EXCEPT !.qemu.msix_used = IF msix THEN (IF @ >= nr THEN @ - nr ELSE 0) ELSE @,
               !.qemu.vec_notifiers = IF @ >= nr THEN @ - nr ELSE 0,
               !.msi_vectors = IF @ = "allocated" THEN "freed"
                              ELSE IF @ = "null" THEN "null" ELSE "double_free",
               !.nr_vectors = 0,
               !.interrupt = INT_NONE]

\* fault: INTx is not attempted again after the vectors are dropped
vfio_disable_msi_no_fallback(s, msix, e) ==
    FreeVectors(KernelVectors(Emit(s, SetVectorsCall(msix), 0), msix, 0), msix, s.nr_vectors)

vfio_disable_msi(s, msix, e) ==
    vfio_enable_intx(
        FreeVectors(KernelVectors(Emit(s, SetVectorsCall(msix), 0), msix, 0), msix, s.nr_vectors),
        e)

vfio_disable_interrupts(s, e) ==
    CASE s.interrupt = INT_INTx -> vfio_disable_intx(s)
      [] s.interrupt = INT_MSI  -> vfio_disable_msi(s, FALSE, e)
      [] s.interrupt = INT_MSIX -> vfio_disable_msi(s, TRUE, e)
      [] OTHER -> s

(***************************************************************************)
(* Guest config space writes.                                              *)
(***************************************************************************)
\* fault: MSI is enabled on every write that leaves the enable bit set
WriteMsiWindow_every_write(s, addr, val, len, e) ==
    IF "MSI" \in s.cap_present /\ ranges_overlap(addr, len, s.msi_cap, s.msi_cap_size)
    THEN Pick({
             IF msi_enabled(s1) THEN vfio_enable_msi(s1, FALSE, e)
             ELSE IF msi_enabled(s) /\ ~msi_enabled(s1) THEN vfio_disable_msi(s1, FALSE, e)
             ELSE s1
             : s1 \in {pci_default_write_config(s, addr, val, len)}})
    ELSE s

WriteMsiWindow(s, addr, val, len, e) ==
    IF "MSI" \in s.cap_present /\ ranges_overlap(addr, len, s.msi_cap, s.msi_cap_size)
    THEN Pick({
             IF ~msi_enabled(s) /\ msi_enabled(s1) THEN vfio_enable_msi(s1, FALSE, e)
             ELSE IF msi_enabled(s) /\ ~msi_enabled(s1) THEN vfio_disable_msi(s1, FALSE, e)
             ELSE s1
             : s1 \in {pci_default_write_config(s, addr, val, len)}})
    ELSE s

WriteMsixWindow(s, addr, val, len, e) ==
    IF "MSIX" \in s.cap_present /\ ranges_overlap(addr, len, s.msix_cap, MSIX_CAP_LENGTH)
    THEN Pick({
             IF ~msix_enabled(s) /\ msix_enabled(s1) THEN vfio_enable_msi(s1, TRUE, e)
             ELSE IF msix_enabled(s) /\ ~msix_enabled(s1) THEN vfio_disable_msi(s1, TRUE, e)
             ELSE s1
             : s1 \in {pci_default_write_config(s, addr, val, len)}})
    ELSE s

\* fault: the write is forwarded to the device after it was handled
vfio_pci_write_config_forward_last(s, addr, val, len, e) ==
    IF addr < PCI_CONFIG_HEADER_SIZE
    THEN hw_config_write(pci_default_write_config(s, addr, val, len), addr, val, len, e)
    ELSE hw_config_write(WriteMsixWindow(WriteMsiWindow(s, addr, val, len, e),
                                         addr, val, len, e),
                         addr, val, len, e)

vfio_pci_write_config(s, addr, val, len, e) ==
    IF addr < PCI_CONFIG_HEADER_SIZE
    THEN pci_default_write_config(hw_config_write(s, addr, val, len, e), addr, val, len)
    ELSE WriteMsixWindow(WriteMsiWindow(hw_config_write(s, addr, val, len, e),
                                        addr, val, len, e),
                         addr, val, len, e)

(***************************************************************************)
(* Capability scan.                                                        *)
(***************************************************************************)
RECURSIVE CapWalk(_, _, _, _)
CapWalk(config, cap, pos0, max_cap) ==
    IF max_cap = 0 THEN 0
    ELSE LET pos == Get(config, pos0) - (Get(config, pos0) % 4) IN
         IF pos < PCI_CONFIG_HEADER_SIZE THEN 0
         ELSE LET id == Get(config, pos + PCI_CAP_LIST_ID) IN
              IF id = 255 THEN 0
              ELSE IF id = cap THEN pos
              ELSE CapWalk(config, cap, (pos + PCI_CAP_LIST_NEXT) % 256, max_cap - 1)

vfio_find_cap_offset(config, cap) ==
    IF BitAnd(Get(config, PCI_STATUS), PCI_STATUS_CAP_LIST) = 0 THEN 0
    ELSE CapWalk(config, cap, PCI_CAPABILITY_LIST,
                 (PCI_CONFIG_SPACE_SIZE - PCI_CONFIG_HEADER_SIZE) \div PCI_CAP_SIZEOF)

(***************************************************************************)
(* MSI and MSI-X capability setup.  msi_init and msix_init are QEMU's:     *)
(* they record where the capability is, clear the enable bit of the        *)
(* emulated copy and make the guest-writable bits writable.                *)
(***************************************************************************)
msi_init(s, pos, ctrl) ==
    [s EXCEPT !.cap_present = @ \cup {"MSI"},
              !.msi_cap = pos,
              !.config = Put(@, pos + PCI_CAP_FLAGS,
                             BitAnd(ctrl % 256, 255 - PCI_MSI_FLAGS_ENABLE - PCI_MSI_FLAGS_QSIZE)),
              !.wmask = Put(@, pos + PCI_CAP_FLAGS, PCI_MSI_FLAGS_ENABLE + PCI_MSI_FLAGS_QSIZE)]

msix_init(s, pos, entries) ==
    [s EXCEPT !.cap_present = @ \cup {"MSIX"},
              !.msix_cap = pos,
              !.msix_entries_nr = entries,
              !.config = Put(@, pos + PCI_CAP_FLAGS + 1,
                             BitAnd(Get(@, pos + PCI_CAP_FLAGS + 1),
                                    255 - MSIX_ENABLE_MASK - MSIX_MASKALL_MASK)),
              !.wmask = Put(@, pos + PCI_CAP_FLAGS + 1, MSIX_ENABLE_MASK + MSIX_MASKALL_MASK)]

SetupMsiCap(s, e) ==
    LET pos == vfio_find_cap_offset(s.config, PCI_CAP_ID_MSI) IN
    IF pos = 0 THEN [s EXCEPT !.ret = 0]
    ELSE IF ~e.pread_ok \/ ~e.cap_init_ok THEN [s EXCEPT !.ret = -1]
    ELSE LET ctrl == GetLE(s.hw.config, pos + PCI_CAP_FLAGS, 2)
             msi_64bit == BitAnd(ctrl, PCI_MSI_FLAGS_64BIT) # 0
             msi_maskbit == BitAnd(ctrl, PCI_MSI_FLAGS_MASKBIT) # 0
         IN  [msi_init(s, pos, ctrl)
                EXCEPT !.msi_cap_size = 10 + (IF msi_maskbit THEN 10 ELSE 0)
                                           + (IF msi_64bit THEN 4 ELSE 0),
                       !.ret = 0]

SetupMsixCap(s, e) ==
    LET pos == vfio_find_cap_offset(s.config, PCI_CAP_ID_MSIX) IN
    IF pos = 0 THEN [s EXCEPT !.ret = 0]
    ELSE IF ~e.pread_ok THEN [s EXCEPT !.ret = -1]
    ELSE LET ctrl == GetLE(s.hw.config, pos + PCI_CAP_FLAGS, 2)
             table == GetLE(s.hw.config, pos + PCI_MSIX_TABLE, 4)
             bar == BitAnd(table, PCI_MSIX_BIR)
             offset == table - bar
             entries == BitAnd(ctrl, PCI_MSIX_TABSIZE) + 1
             s1 == IF bar \in BarSlots
                   THEN [s EXCEPT !.resources[bar].msix = TRUE,
                                  !.resources[bar].msix_offset = offset]
                   ELSE s
         IN  IF ~e.cap_init_ok THEN [s1 EXCEPT !.ret = -1]
             ELSE [msix_init(s1, pos, entries) EXCEPT !.ret = 0]

vfio_setup_msi(s, e) ==
    Pick({IF s1.ret # 0 THEN s1 ELSE SetupMsixCap(s1, e) : s1 \in {SetupMsiCap(s, e)}})

vfio_teardown_msi(s) ==
    [Emit(Emit(s, "msi_uninit", 0), "msix_uninit", 0) EXCEPT !.cap_present = {}]

(***************************************************************************)
(* Resource setup.                                                         *)
(***************************************************************************)
Fails(e, i, kind) == e.bar_fail = [slot |-> i, kind |-> kind]

\* mmap of len bytes of BAR i's backing resource from offset off, kept in
\* r_virtbase[k] and handed to qemu_ram_alloc_from_ptr as memory_index[k]
MapDirect(s, i, k, off, len) ==
    LET m == [bar |-> i, off |-> off, len |-> len] IN
    [s EXCEPT !.resources[i].r_virtbase[k + 1] = m,
              !.qemu.mmaps = @ \cup {m},
              !.qemu.ram = @ \cup {[bar |-> i, index |-> k, len |-> len]}]

pci_register_bar(s, i, size, type) ==
    [s EXCEPT !.qemu.pci_bars = @ \cup {[bar |-> i, size |-> size, type |-> type]}]

\* fault: the part above the table page is mapped even when it is empty
MapAlignedBar_above(s, i, len) ==
    LET res == s.resources[i] IN
    IF res.msix
    THEN LET s1 == IF res.msix_offset # 0
                   THEN MapDirect(s, i, 0, 0, res.msix_offset) ELSE s
         IN  IF len >= res.msix_offset + MSIX_PAGE_SIZE
             THEN MapDirect(s1, i, 1, res.msix_offset + MSIX_PAGE_SIZE,
                            len - res.msix_offset - MSIX_PAGE_SIZE)
             ELSE s1
    ELSE MapDirect(s, i, 0, 0, len)

\* a page aligned memory BAR: direct map, split around the MSI-X table page
\* fault: the mapping below the table page runs over the table page
MapAlignedBar_over_table(s, i, len) ==
    LET res == s.resources[i] IN
    IF res.msix
    THEN LET s1 == MapDirect(s, i, 0, 0, res.msix_offset + MSIX_PAGE_SIZE)
         IN  IF len > res.msix_offset + MSIX_PAGE_SIZE
             THEN MapDirect(s1, i, 1, res.msix_offset + MSIX_PAGE_SIZE,
                            len - res.msix_offset - MSIX_PAGE_SIZE)
             ELSE s1
    ELSE MapDirect(s, i, 0, 0, len)

MapAlignedBar(s, i, len) ==
    LET res == s.resources[i] IN
    IF res.msix
    THEN LET s1 == IF res.msix_offset # 0
                   THEN MapDirect(s, i, 0, 0, res.msix_offset) ELSE s
         IN  IF len > res.msix_offset + MSIX_PAGE_SIZE
             THEN MapDirect(s1, i, 1, res.msix_offset + MSIX_PAGE_SIZE,
                            len - res.msix_offset - MSIX_PAGE_SIZE)
             ELSE s1
    ELSE MapDirect(s, i, 0, 0, len)

\* the mmap of MapAlignedBar that fails, if one does: the first mapping of
\* the slot ("mmap0") or the one above the table page ("mmap1")
MapAlignedFails(s, i, len, e) ==
    LET res == s.resources[i] IN
    IF res.msix
    THEN \/ (res.msix_offset # 0 /\ Fails(e, i, "mmap0"))
         \/ (len > res.msix_offset + MSIX_PAGE_SIZE /\ Fails(e, i, "mmap1"))
    ELSE Fails(e, i, "mmap0")

\* what a failing MapAlignedBar leaves behind: the first mapping, when it is
\* the second that failed
MapAlignedPartial(s, i, len, e) ==
    LET res == s.resources[i] IN
    IF res.msix /\ res.msix_offset # 0 /\ ~Fails(e, i, "mmap0")
    THEN MapDirect(s, i, 0, 0, res.msix_offset)
    ELSE s

\* fault: a BAR of length zero is set up like any other
SkipBar_never(len) == FALSE

\* if (!len) continue;
SkipBar(len) == len = 0

RECURSIVE MapResourcesFrom(_, _, _)
MapResourcesFrom(s, i, e) ==
    IF i >= PCI_ROM_SLOT THEN [s EXCEPT !.ret = 0]
    ELSE
    LET s0  == [s EXCEPT !.resources[i].bar = i]
        len == s.hw.bar_len[i]
    IN
    IF Fails(e, i, "len") THEN [s0 EXCEPT !.ret = -1]
    ELSE IF SkipBar(len) THEN MapResourcesFrom(s0, i + 1, e)
    ELSE IF Fails(e, i, "read") THEN [s0 EXCEPT !.ret = -1]
    ELSE
    LET bar   == GetLE(s.hw.config, PCI_BASE_ADDRESS_0 + 4 * i, 4)
        io    == BitAnd(bar, 1) = 1
        is64  == BitAnd(bar, 4) # 0
        skip  == IF is64 THEN 2 ELSE 1
    IN
    IF ~io /\ len % 4096 = 0
    THEN LET s1 == [s0 EXCEPT !.resources[i].mem = TRUE, !.resources[i].size = len] IN
         IF MapAlignedFails(s1, i, len, e)
         THEN [MapAlignedPartial(s1, i, len, e) EXCEPT !.ret = -1]
         ELSE LET s2 == pci_register_bar(MapAlignedBar(s1, i, len), i, len, "mem")
              IN  \* a 64-bit BAR takes the next slot too
                  MapResourcesFrom([s2 EXCEPT !.resources[i].valid = TRUE], i + skip, e)
    ELSE IF ~io
    THEN LET s1 == [s0 EXCEPT !.resources[i].mem = TRUE, !.resources[i].size = len,
                              !.resources[i].slow = TRUE, !.resources[i].io_mem = TRUE,
                              !.qemu.io_mems = @ \cup {i}]
             s2 == pci_register_bar(s1, i, len, "mem")
         IN  MapResourcesFrom([s2 EXCEPT !.resources[i].valid = TRUE], i + skip, e)
    ELSE LET s1 == [s0 EXCEPT !.resources[i].size = len]
             s2 == pci_register_bar(s1, i, len, "io")
         IN  MapResourcesFrom([s2 EXCEPT !.resources[i].valid = TRUE], i + 1, e)

vfio_map_resources(s, e) == MapResourcesFrom(s, 0, e)

(***************************************************************************)
(* The process: the devices and the file-scope lists of vfio.c, as one     *)
(* record so that the C functions compose.                                 *)
(*   uiommu_list  VFIOUIOMMU records [fd, opened, vdevs], head first       *)
(*   mem_clients  the domains whose memory client is registered with QEMU  *)
(*   kdma         per domain descriptor, the kernel's IOVA page -> host    *)
(*                page bindings                                            *)
(*   phys         QEMU's guest physical page descriptors (phys_offset)     *)
(*   timers       the armed removal timers, [id, dev]                      *)
(***************************************************************************)
NoWorld ==
    [ devs        |-> [d \in Devices |-> NoDevice],
      nl_list     |-> <<>>,
      nl_handle   |-> FALSE,
      nl_sent     |-> <<>>,
      uiommu_list |-> <<>>,
      mem_clients |-> <<>>,
      kdma        |-> [f \in {} |-> EmptyImg],
      phys        |-> EmptyImg,
      fds         |-> {},
      timers      |-> {},
      timer_seq   |-> 0,
      no_vdevs    |-> FALSE,
      nl_ret      |-> 0,
      aborted     |-> FALSE ]

WEmit(w, d, call, arg) == [w EXCEPT !.devs[d] = Emit(@, call, arg)]

Ret(w, d, r) == [w EXCEPT !.devs[d].ret = r]

\* open() returns the lowest descriptor not in use
LowestFree(fds) ==
    CHOOSE n \in 3..(3 + Cardinality(fds)) :
        n \notin fds /\ \A m \in 3..(n - 1) : m \in fds

SeqRemove(q, x) == SelectSeq(q, LAMBDA y : y # x)

(***************************************************************************)
(* DMA                                                                     *)
(***************************************************************************)
RamHostBase == 1048576

qemu_get_ram_ptr(phys_offset) ==
    RamHostBase + phys_offset - (phys_offset % TARGET_PAGE_SIZE)

PageOf(addr) == addr \div TARGET_PAGE_SIZE

\* the pages of `among' that [addr, addr + size) touches
PagesIn(among, addr, size) ==
    {pg \in among : addr < (pg + 1) * TARGET_PAGE_SIZE /\ pg * TARGET_PAGE_SIZE < addr + size}

\* pcibus_t and ram_addr_t arithmetic wraps; the address space is scaled
\* down so that its size is a number the checker represents
AddrSpace == 1073741824

Wrap(x) == x % AddrSpace

KTable(w, fd) == IF fd \in DOMAIN w.kdma THEN w.kdma[fd] ELSE EmptyImg

SetKTable(w, fd, tbl) ==
    [w EXCEPT !.kdma = [f \in (DOMAIN w.kdma) \cup {fd} |-> IF f = fd THEN tbl ELSE w.kdma[f]]]

CountCalls(log, call) == Cardinality({i \in 1..Len(log) : log[i].call = call})

\* ioctl(vfiofd, VFIO_MAP_DMA): the kernel binds the pages of
\* [dmaaddr, dmaaddr + size) in the device's domain; ret is 0 or the errno
KernelMapDma(w, d, vaddr, dmaaddr, size, e) ==
    LET fd    == w.devs[d].kernel.domain
        tbl   == KTable(w, fd)
        pages == PageOf(dmaaddr)..(PageOf(dmaaddr + size - 1))
        nth   == CountCalls(w.devs[d].log, "VFIO_MAP_DMA")
                 + CountCalls(w.devs[d].log, "VFIO_MAP_DMA_failed") + 1
        errno == IF (vaddr % TARGET_PAGE_SIZE) # 0 \/ (dmaaddr % TARGET_PAGE_SIZE) # 0
                    \/ (size % TARGET_PAGE_SIZE) # 0 THEN EINVAL
                 ELSE IF e.dma_fail = nth THEN EIO
                 ELSE IF \E pg \in pages : pg \in DOMAIN tbl THEN EBUSY
                 ELSE 0
    IN  IF errno # 0
        THEN Ret(WEmit(w, d, "VFIO_MAP_DMA_failed", <<vaddr, dmaaddr, size>>), d, errno)
        ELSE Ret(SetKTable(WEmit(w, d, "VFIO_MAP_DMA", <<vaddr, dmaaddr, size>>), fd,
                           [pg \in (DOMAIN tbl) \cup pages |->
                               IF pg \in pages
                               THEN vaddr + (pg - PageOf(dmaaddr)) * TARGET_PAGE_SIZE
                               ELSE tbl[pg]]),
                 d, 0)

KernelUnmapDma(w, d, vaddr, dmaaddr, size, e) ==
    LET fd    == w.devs[d].kernel.domain
        tbl   == KTable(w, fd)
        pages == PagesIn(DOMAIN tbl, dmaaddr, size)
    IN  IF ~e.unmap_ok
        THEN Ret(WEmit(w, d, "VFIO_UNMAP_DMA_failed", <<vaddr, dmaaddr, size>>), d, EIO)
        ELSE Ret(SetKTable(WEmit(w, d, "VFIO_UNMAP_DMA", <<vaddr, dmaaddr, size>>), fd,
                           [pg \in (DOMAIN tbl) \ pages |-> tbl[pg]]),
                 d, 0)

\* fault: the host address is not advanced from one chunk to the next
RECURSIVE DmaMapLoop_same_vaddr(_, _, _, _, _, _)
DmaMapLoop_same_vaddr(w, d, vaddr, dmaaddr, size, e) ==
    IF size = 0 THEN Ret(w, d, 0)
    ELSE LET chunk == Min(size, VFIO_MAX_MAP_SIZE) IN
         Pick({IF w1.devs[d].ret # 0 THEN Ret(w1, d, 0 - w1.devs[d].ret)
               ELSE DmaMapLoop_same_vaddr(w1, d, vaddr, dmaaddr + chunk, size - chunk, e)
               : w1 \in {KernelMapDma(w, d, vaddr, dmaaddr, chunk, e)}})

RECURSIVE DmaMapLoop(_, _, _, _, _, _)
DmaMapLoop(w, d, vaddr, dmaaddr, size, e) ==
    IF size = 0 THEN Ret(w, d, 0)
    ELSE LET chunk == Min(size, VFIO_MAX_MAP_SIZE) IN
         Pick({IF w1.devs[d].ret # 0 THEN Ret(w1, d, 0 - w1.devs[d].ret)
               ELSE DmaMapLoop(w1, d, vaddr + chunk, dmaaddr + chunk, size - chunk, e)
               : w1 \in {KernelMapDma(w, d, vaddr, dmaaddr, chunk, e)}})

vfio_dma_map(w, d, start_addr, size, phys_offset, e) ==
    DmaMapLoop(w, d, qemu_get_ram_ptr(phys_offset), start_addr, size, e)

vfio_dma_unmap(w, d, start_addr, size, phys_offset, e) ==
    Pick({Ret(w1, d, 0 - w1.devs[d].ret)
          : w1 \in {KernelUnmapDma(w, d, qemu_get_ram_ptr(phys_offset), start_addr, size, e)}})

cpu_get_physical_page_desc(w, addr) ==
    IF PageOf(addr) \in DOMAIN w.phys THEN w.phys[PageOf(addr)] ELSE IO_MEM_UNASSIGNED

\* the page by page walk after EBUSY; the result's ret is that of the last
\* map and `curr' is where the walk stopped
RECURSIVE RemapWalk(_, _, _, _, _, _)
RemapWalk(w, d, curr, end, curr_phys, e) ==
    IF curr >= end THEN [w |-> w, curr |-> curr]
    ELSE LET phys == cpu_get_physical_page_desc(w, curr) IN
         IF phys # curr_phys
         THEN Pick({IF w2.devs[d].ret # 0 THEN [w |-> w2, curr |-> curr]
                    ELSE RemapWalk(w2, d, curr + TARGET_PAGE_SIZE, end,
                                   curr_phys + TARGET_PAGE_SIZE, e)
                    : w2 \in {vfio_dma_map(
                                  vfio_dma_unmap(w, d, curr, TARGET_PAGE_SIZE, phys, e),
                                  d, curr, TARGET_PAGE_SIZE, curr_phys, e)}})
         ELSE RemapWalk(w, d, curr + TARGET_PAGE_SIZE, end,
                        curr_phys + TARGET_PAGE_SIZE, e)

\* fault: a notification that is not page aligned is not ignored
Unaligned_never(start_addr, size) == FALSE

\* (start_addr | size) & ~TARGET_PAGE_MASK
Unaligned(start_addr, size) ==
    (start_addr % TARGET_PAGE_SIZE) # 0 \/ (size % TARGET_PAGE_SIZE) # 0

\* fault: a range that cannot be mapped is left as far as it was mapped
SetMemoryVia_no_cleanup(w, d, start_addr, size, phys_offset, e) ==
    LET flags == phys_offset % TARGET_PAGE_SIZE IN
    IF Unaligned(start_addr, size) THEN w
    ELSE IF flags = IO_MEM_RAM
    THEN Pick({
             IF w1.devs[d].ret = 0 THEN w1
             ELSE IF w1.devs[d].ret = 0 - EBUSY
             THEN Pick({IF r.curr >= start_addr + size THEN r.w
                        ELSE WEmit(r.w, d, "fprintf", "Failed to map region")
                        : r \in {RemapWalk(w1, d, start_addr, start_addr + size,
                                           phys_offset, e)}})
             ELSE WEmit(w1, d, "fprintf", "Failed to map region")
             : w1 \in {vfio_dma_map(w, d, start_addr, size, phys_offset, e)}})
    ELSE IF flags = IO_MEM_UNASSIGNED
    THEN Pick({IF w1.devs[d].ret = 0 THEN w1
               ELSE WEmit(w1, d, "fprintf", "Failed to unmap region")
               : w1 \in {vfio_dma_unmap(w, d, start_addr, size, phys_offset, e)}})
    ELSE w

\* the body of the callback once the first member d of the domain is known
SetMemoryVia(w, d, start_addr, size, phys_offset, e) ==
    LET flags == phys_offset % TARGET_PAGE_SIZE IN
    IF Unaligned(start_addr, size) THEN w
    ELSE IF flags = IO_MEM_RAM
    THEN Pick({
             IF w1.devs[d].ret = 0 THEN w1
             ELSE IF w1.devs[d].ret = 0 - EBUSY
             THEN Pick({IF r.curr >= start_addr + size THEN r.w
                        ELSE WEmit(vfio_dma_unmap(r.w, d, start_addr, size, phys_offset, e),
                                   d, "fprintf", "Failed to map region")
                        : r \in {RemapWalk(w1, d, start_addr, start_addr + size,
                                           phys_offset, e)}})
             ELSE WEmit(vfio_dma_unmap(w1, d, start_addr, size, phys_offset, e),
                        d, "fprintf", "Failed to map region")
             : w1 \in {vfio_dma_map(w, d, start_addr, size, phys_offset, e)}})
    ELSE IF flags = IO_MEM_UNASSIGNED
    THEN Pick({IF w1.devs[d].ret = 0 THEN w1
               ELSE WEmit(w1, d, "fprintf", "Failed to unmap region")
               : w1 \in {vfio_dma_unmap(w, d, start_addr, size, phys_offset, e)}})
    ELSE w

\* the memory client callback of the domain whose descriptor is fd
vfio_client_set_memory(w, fd, start_addr, size, phys_offset, e) ==
    LET doms  == {i \in 1..Len(w.uiommu_list) : w.uiommu_list[i].fd = fd}
        vdevs == IF doms = {} THEN <<>> ELSE w.uiommu_list[CHOOSE i \in doms : TRUE].vdevs
    IN
    IF vdevs = <<>> THEN [w EXCEPT !.no_vdevs = TRUE]
    ELSE SetMemoryVia(w, Head(vdevs), start_addr, size, phys_offset, e)

(***************************************************************************)
(* Guest physical memory.  cpu_register_physical_memory tells every memory *)
(* client first and updates the page descriptors after.                    *)
(***************************************************************************)
RECURSIVE cpu_notify_set_memory(_, _, _, _, _, _)
cpu_notify_set_memory(w, clients, start_addr, size, phys_offset, e) ==
    IF clients = <<>> THEN w
    ELSE cpu_notify_set_memory(
             vfio_client_set_memory(w, Head(clients), start_addr, size, phys_offset, e),
             Tail(clients), start_addr, size, phys_offset, e)

\* the page descriptors of [start_addr, start_addr + size) become phys_offset
SetPageDescs(w1, start_addr, size, phys_offset) ==
    LET pages == IF phys_offset = IO_MEM_UNASSIGNED
                 THEN PagesIn(DOMAIN w1.phys, start_addr, size)
                 ELSE PageOf(start_addr)..PageOf(start_addr + size - 1)
        keep  == (DOMAIN w1.phys) \ pages
        dom   == IF phys_offset = IO_MEM_UNASSIGNED THEN keep ELSE keep \cup pages
    IN  [w1 EXCEPT !.phys =
            [pg \in dom |->
                IF pg \notin pages THEN w1.phys[pg]
                ELSE IF phys_offset % TARGET_PAGE_SIZE = IO_MEM_RAM
                THEN phys_offset + (pg - PageOf(start_addr)) * TARGET_PAGE_SIZE
                ELSE phys_offset]]

cpu_register_physical_memory(w, start_addr, size, phys_offset, e) ==
    SetPageDescs(cpu_notify_set_memory(w, w.mem_clients, start_addr, size, phys_offset, e),
                 start_addr, size, phys_offset)

(***************************************************************************)
(* BAR mapping callbacks and teardown.                                     *)
(***************************************************************************)
\* the ram_addr_t qemu_ram_alloc_from_ptr returned for mapping k of BAR i
MemoryIndex(d, i, k) == 16777216 * d + 1048576 * (2 * i + k)

\* cpu_register_io_memory indexes: not RAM, not unassigned
IoMemIndex(i) == 8 * (4 + i)

MsixIoMemIndex(i) == 8 * (10 + i)

GuestMap(w, d, phys, size, target, region_offset, desc, e) ==
    cpu_register_physical_memory(
        [w EXCEPT !.devs[d].qemu.guest_map =
            @ \cup {[phys |-> phys, size |-> size, target |-> target,
                     region_offset |-> region_offset]}],
        phys, size, desc, e)

\* the map callback once e_phys and e_size are recorded in the resource
IomemMapRecorded(w0, d, bar, e_phys, e_size, e) ==
    LET res == w0.devs[d].resources[bar]
        tgt(k)  == IF res.slow THEN <<bar, "io_mem">> ELSE <<bar, "memory_index", k>>
        desc(k) == IF res.slow THEN IoMemIndex(bar) ELSE MemoryIndex(d, bar, k)
    IN
    IF res.msix
    THEN Pick({
             IF e_size > res.msix_offset + MSIX_PAGE_SIZE
             THEN GuestMap(w2, d, e_phys + res.msix_offset + MSIX_PAGE_SIZE,
                           e_size - (res.msix_offset + MSIX_PAGE_SIZE), tgt(1),
                           IF res.slow THEN res.msix_offset + MSIX_PAGE_SIZE ELSE 0,
                           desc(1), e)
             ELSE w2
             \* msix_mmio_map: QEMU's table emulation takes the table page
             : w2 \in {GuestMap(IF res.msix_offset > 0
                                THEN GuestMap(w0, d, e_phys, res.msix_offset, tgt(0), 0,
                                              desc(0), e)
                                ELSE w0,
                                d, e_phys + res.msix_offset, MSIX_PAGE_SIZE,
                                <<bar, "msix_table">>, 0, MsixIoMemIndex(bar), e)}})
    ELSE GuestMap(w0, d, e_phys, e_size, tgt(0), 0, desc(0), e)

vfio_iomem_map(w, d, bar, e_phys, e_size, e) ==
    IomemMapRecorded([w EXCEPT !.devs[d].resources[bar].e_phys = e_phys,
                               !.devs[d].resources[bar].e_size = e_size],
                     d, bar, e_phys, e_size, e)

vfio_ioport_map(w, d, bar, e_phys, e_size) ==
    [w EXCEPT !.devs[d].resources[bar].e_phys = e_phys,
              !.devs[d].resources[bar].e_size = e_size,
              !.devs[d].qemu.guest_map =
                  @ \cup {[phys |-> e_phys, size |-> e_size,
                           target |-> <<bar, "ioport">>, region_offset |-> 0]}]

\* cpu_register_physical_memory(phys, size, IO_MEM_UNASSIGNED), then
\* qemu_ram_free_from_ptr and munmap(base, len) for mapping k of BAR i
UnmapDirect(w, d, i, k, phys, size, len, e) ==
    Pick({
        LET m == w1.devs[d].resources[i].r_virtbase[k + 1] IN
        [WEmit(w1, d, "munmap", <<i, m.off, len>>) EXCEPT
            !.devs[d].qemu.mmaps = @ \ {[bar |-> m.bar, off |-> m.off, len |-> len]},
            !.devs[d].qemu.ram = {r \in @ : ~(r.bar = i /\ r.index = k)},
            !.devs[d].qemu.guest_map = {g \in @ : g.target # <<i, "memory_index", k>>}]
        : w1 \in {cpu_register_physical_memory(w, phys, size, IO_MEM_UNASSIGNED, e)}})

UnmapResource(w, d, i, e) ==
    LET res == w.devs[d].resources[i] IN
    IF ~(res.valid /\ res.mem) THEN w
    ELSE IF res.msix
    THEN Pick({
             IF res.size > res.msix_offset + MSIX_PAGE_SIZE
             THEN UnmapDirect(w1, d, i, 1, res.e_phys + MSIX_PAGE_SIZE + res.msix_offset,
                              Wrap(res.e_size - MSIX_PAGE_SIZE - res.msix_offset),
                              res.size - MSIX_PAGE_SIZE - res.msix_offset, e)
             ELSE w1
             : w1 \in {IF res.msix_offset # 0
                       THEN UnmapDirect(w, d, i, 0, res.e_phys, res.msix_offset,
                                        res.msix_offset, e)
                       ELSE w}})
    ELSE IF ~res.slow THEN UnmapDirect(w, d, i, 0, res.e_phys, res.e_size, res.size, e)
    ELSE [WEmit(w, d, "cpu_unregister_io_memory", i) EXCEPT !.devs[d].qemu.io_mems = @ \ {i}]

RECURSIVE UnmapResourcesFrom(_, _, _, _)
UnmapResourcesFrom(w, d, i, e) ==
    IF i >= PCI_ROM_SLOT THEN w
    ELSE UnmapResourcesFrom(UnmapResource(w, d, i, e), d, i + 1, e)

vfio_unmap_resources(w, d, e) == UnmapResourcesFrom(w, d, 0, e)

(***************************************************************************)
(* Netlink                                                                 *)
(***************************************************************************)
\* fault: the timeout is reported and the process carries on
remove_abort_logged(w, d) ==
    WEmit(w, d, "error_report", "guest did not respond.  Abort.")

\* abort(): the process ends
vfio_remove_abort(w, d) ==
    [WEmit(w, d, "error_report", "guest did not respond.  Abort.") EXCEPT !.aborted = TRUE]

\* fault: the loop stops at the first entry without comparing addresses
NlLookup_first(w, host) ==
    IF w.nl_list = <<>> THEN 0 ELSE Head(w.nl_list)

\* QLIST_FOREACH over nl_list: the first device whose host address matches,
\* 0 when the loop runs off the end
NlLookup(w, host) ==
    LET hits == {i \in 1..Len(w.nl_list) : w.devs[w.nl_list[i]].host = host}
    IN  IF hits = {} THEN 0
        ELSE w.nl_list[CHOOSE i \in hits : \A j \in hits : i <= j]

\* fault: every command of a registered device is taken for a removal
\* fault: the guest is asked to unplug the device but no deadline is armed
vfio_parse_netlink_no_deadline(w, m) ==
    IF m.pid # 0 THEN [w EXCEPT !.nl_ret = 0]
    ELSE IF ~m.attrs THEN [w EXCEPT !.nl_ret = -1]
    ELSE
    LET d == NlLookup(w, m.host) IN
    IF d = 0 THEN [w EXCEPT !.nl_ret = 0]
    ELSE IF m.cmd = "VFIO_MSG_REMOVE"
    THEN [WEmit(w, d, "qdev_unplug", m.host) EXCEPT
             !.devs[d].qemu.unplug = @ + 1,
             !.nl_ret = 0]
    ELSE [w EXCEPT !.nl_ret = 0]

vfio_parse_netlink_any_cmd(w, m) ==
    IF m.pid # 0 THEN [w EXCEPT !.nl_ret = 0]
    ELSE IF ~m.attrs THEN [w EXCEPT !.nl_ret = -1]
    ELSE
    LET d == NlLookup(w, m.host) IN
    IF d = 0 THEN [w EXCEPT !.nl_ret = 0]
    ELSE LET id == w.timer_seq + 1 IN
         [WEmit(w, d, "qdev_unplug", m.host) EXCEPT
             !.devs[d].qemu.unplug = @ + 1,
             !.devs[d].remove_timer = id,
             !.timer_seq = id,
             !.timers = @ \cup {[id |-> id, dev |-> d, delay |-> REMOVE_TIMEOUT_MS]},
             !.nl_ret = 0]

\* m: [pid, cmd, attrs, host]
vfio_parse_netlink(w, m) ==
    IF m.pid # 0 THEN [w EXCEPT !.nl_ret = 0]
    ELSE IF ~m.attrs THEN [w EXCEPT !.nl_ret = -1]
    ELSE
    LET d == NlLookup(w, m.host) IN
    IF d = 0 THEN [w EXCEPT !.nl_ret = 0]
    ELSE IF m.cmd = "VFIO_MSG_REMOVE"
    THEN LET id == w.timer_seq + 1 IN
         [WEmit(w, d, "qdev_unplug", m.host) EXCEPT
             !.devs[d].qemu.unplug = @ + 1,
             !.devs[d].remove_timer = id,
             !.timer_seq = id,
             !.timers = @ \cup {[id |-> id, dev |-> d, delay |-> REMOVE_TIMEOUT_MS]},
             !.nl_ret = 0]
    ELSE [w EXCEPT !.nl_ret = 0]

\* fault: the device is put on the list but no message is sent
vfio_register_netlink_silent(w, d, e) ==
    IF w.nl_list = <<>> /\ ~e.nl_ok
    THEN Ret(WEmit(w, d, "error_report", "netlink"), d, -1)
    ELSE LET w1 == IF w.nl_list = <<>> THEN [w EXCEPT !.nl_handle = TRUE] ELSE w IN
         Ret([w1 EXCEPT !.nl_list = <<d>> \o @], d, 0)

vfio_register_netlink(w, d, e) ==
    IF w.nl_list = <<>> /\ ~e.nl_ok
    THEN Ret(WEmit(w, d, "error_report", "netlink"), d, -1)
    ELSE LET w1 == IF w.nl_list = <<>> THEN [w EXCEPT !.nl_handle = TRUE] ELSE w IN
         Ret([WEmit(w1, d, "nl_send", "VFIO_MSG_REGISTER") EXCEPT
                 !.nl_list = <<d>> \o @,
                 !.nl_sent = Append(@, [cmd    |-> "VFIO_MSG_REGISTER",
                                        msgcap |-> {"VFIO_MSG_REMOVE"},
                                        host   |-> w.devs[d].host])],
             d, 0)

qemu_timer_pending(w, id) == \E t \in w.timers : t.id = id

vfio_unregister_netlink(w, d) ==
    LET id == w.devs[d].remove_timer
        w1 == IF qemu_timer_pending(w, id)
              THEN [w EXCEPT !.timers = {t \in @ : t.id # id}]
              ELSE w
        w2 == [WEmit(w1, d, "QLIST_REMOVE", "nl_next") EXCEPT !.nl_list = SeqRemove(@, d)]
    IN  IF w2.nl_list = <<>> THEN [w2 EXCEPT !.nl_handle = FALSE] ELSE w2

(***************************************************************************)
(* General setup                                                           *)
(***************************************************************************)
enable_vfio(w, d, e) ==
    LET s == w.devs[d] IN
    IF ~e.vfio_ok THEN Ret(w, d, -1)
    ELSE IF s.vfiofd_name # 0
    THEN [w EXCEPT !.devs[d].vfiofd = s.vfiofd_name, !.devs[d].ret = 0]
    ELSE LET fd == LowestFree(w.fds) IN
         [w EXCEPT !.fds = @ \cup {fd}, !.devs[d].vfiofd = fd, !.devs[d].ret = 0]

disable_vfio(w, d) ==
    IF w.devs[d].vfiofd_name = 0
    THEN [WEmit(w, d, "close", w.devs[d].vfiofd) EXCEPT !.fds = @ \ {w.devs[d].vfiofd}]
    ELSE w

UiommuIndex(w, fd) ==
    LET hits == {i \in 1..Len(w.uiommu_list) : w.uiommu_list[i].fd = fd}
    IN  IF hits = {} THEN 0 ELSE CHOOSE i \in hits : \A j \in hits : i <= j

\* cpu_register_phys_memory_client: the client is linked, then called once
\* for every page the guest has mapped, in address order
RECURSIVE Backlog(_, _, _, _)
Backlog(w, fd, pages, e) ==
    IF pages = {} THEN w
    ELSE LET pg == CHOOSE x \in pages : \A y \in pages : x <= y IN
         Backlog(vfio_client_set_memory(w, fd, pg * TARGET_PAGE_SIZE, TARGET_PAGE_SIZE,
                                        w.phys[pg], e),
                 fd, pages \ {pg}, e)

cpu_register_phys_memory_client(w, fd, e) ==
    Backlog([w EXCEPT !.mem_clients = <<fd>> \o @], fd, DOMAIN w.phys, e)

\* fault: joining a domain that exists registers its listener once more
enable_uiommu_listens_again(w, d, e) ==
    LET s     == w.devs[d]
        given == s.uiommufd_name # 0
        share == ~given /\ s.shared /\ w.uiommu_list # <<>>
        open  == ~given /\ ~share
    IN
    IF ~share /\ ~e.uiommu_open_ok THEN Ret(w, d, -1)
    ELSE
    LET fd == IF given THEN s.uiommufd_name
              ELSE IF share THEN Head(w.uiommu_list).fd
              ELSE LowestFree(w.fds)
        w1 == IF open THEN [w EXCEPT !.fds = @ \cup {fd}] ELSE w
    IN
    IF ~e.uiommu_ok THEN Ret(WEmit(w1, d, "VFIO_SET_UIOMMU_DOMAIN_failed", fd), d, 0 - EINVAL)
    ELSE
    LET w2 == [WEmit(w1, d, "VFIO_SET_UIOMMU_DOMAIN", fd) EXCEPT !.devs[d].kernel.domain = fd]
        ix == UiommuIndex(w2, fd)
        w3 == IF ix = 0
              THEN cpu_register_phys_memory_client(
                       [w2 EXCEPT !.uiommu_list =
                           <<[fd |-> fd, opened |-> open, vdevs |-> <<d>>]>> \o @],
                       fd, e)
              ELSE cpu_register_phys_memory_client(
                       [w2 EXCEPT !.uiommu_list[ix].vdevs = <<d>> \o @], fd, e)
    IN  [w3 EXCEPT !.devs[d].uiommu = fd, !.devs[d].ret = 0]

\* fault: a device without a handed-in descriptor always opens a new domain
enable_uiommu_never_shares(w, d, e) ==
    LET s     == w.devs[d]
        given == s.uiommufd_name # 0
        share == FALSE
        open  == ~given /\ ~share
    IN
    IF ~share /\ ~e.uiommu_open_ok THEN Ret(w, d, -1)
    ELSE
    LET fd == IF given THEN s.uiommufd_name
              ELSE IF share THEN Head(w.uiommu_list).fd
              ELSE LowestFree(w.fds)
        w1 == IF open THEN [w EXCEPT !.fds = @ \cup {fd}] ELSE w
    IN
    IF ~e.uiommu_ok THEN Ret(WEmit(w1, d, "VFIO_SET_UIOMMU_DOMAIN_failed", fd), d, 0 - EINVAL)
    ELSE
    LET w2 == [WEmit(w1, d, "VFIO_SET_UIOMMU_DOMAIN", fd) EXCEPT !.devs[d].kernel.domain = fd]
        ix == UiommuIndex(w2, fd)
        w3 == IF ix = 0
              THEN cpu_register_phys_memory_client(
                       [w2 EXCEPT !.uiommu_list =
                           <<[fd |-> fd, opened |-> open, vdevs |-> <<d>>]>> \o @],
                       fd, e)
              ELSE [w2 EXCEPT !.uiommu_list[ix].vdevs = <<d>> \o @]
    IN  [w3 EXCEPT !.devs[d].uiommu = fd, !.devs[d].ret = 0]

enable_uiommu(w, d, e) ==
    LET s     == w.devs[d]
        given == s.uiommufd_name # 0
        share == ~given /\ s.shared /\ w.uiommu_list # <<>>
        open  == ~given /\ ~share
    IN
    IF ~share /\ ~e.uiommu_open_ok THEN Ret(w, d, -1)
    ELSE
    LET fd == IF given THEN s.uiommufd_name
              ELSE IF share THEN Head(w.uiommu_list).fd
              ELSE LowestFree(w.fds)
        w1 == IF open THEN [w EXCEPT !.fds = @ \cup {fd}] ELSE w
    IN
    IF ~e.uiommu_ok THEN Ret(WEmit(w1, d, "VFIO_SET_UIOMMU_DOMAIN_failed", fd), d, 0 - EINVAL)
    ELSE
    LET w2 == [WEmit(w1, d, "VFIO_SET_UIOMMU_DOMAIN", fd) EXCEPT !.devs[d].kernel.domain = fd]
        ix == UiommuIndex(w2, fd)
        w3 == IF ix = 0
              THEN cpu_register_phys_memory_client(
                       [w2 EXCEPT !.uiommu_list =
                           <<[fd |-> fd, opened |-> open, vdevs |-> <<d>>]>> \o @],
                       fd, e)
              ELSE [w2 EXCEPT !.uiommu_list[ix].vdevs = <<d>> \o @]
    IN  [w3 EXCEPT !.devs[d].uiommu = fd, !.devs[d].ret = 0]

\* fault: the device is unlinked but an emptied domain stays registered
disable_uiommu_keep(w, d) ==
    LET fd == w.devs[d].uiommu
        w1 == [WEmit(w, d, "VFIO_SET_UIOMMU_DOMAIN", -1) EXCEPT !.devs[d].kernel.domain = 0]
        ix == UiommuIndex(w1, fd)
    IN  IF fd = 0 THEN w1
        ELSE [w1 EXCEPT !.uiommu_list[ix].vdevs = SeqRemove(@, d), !.devs[d].uiommu = 0]

\* fault: the descriptor of an emptied domain is closed whoever opened it
disable_uiommu_closes_given(w, d) ==
    LET fd == w.devs[d].uiommu
        w1 == [WEmit(w, d, "VFIO_SET_UIOMMU_DOMAIN", -1) EXCEPT !.devs[d].kernel.domain = 0]
        ix == UiommuIndex(w1, fd)
    IN
    IF fd = 0 THEN w1
    ELSE
    LET w2 == [w1 EXCEPT !.uiommu_list[ix].vdevs = SeqRemove(@, d), !.devs[d].uiommu = 0] IN
    IF w2.uiommu_list[ix].vdevs = <<>>
    THEN LET dom == w2.uiommu_list[ix]
             w3  == [w2 EXCEPT !.mem_clients = SeqRemove(@, fd),
                               !.uiommu_list = SelectSeq(@, LAMBDA u : u.fd # fd)]
         IN  IF TRUE
             THEN [w3 EXCEPT !.fds = @ \ {fd},
                             !.kdma = [f \in (DOMAIN @) \ {fd} |-> @[f]]]
             ELSE w3
    ELSE w2

disable_uiommu(w, d) ==
    LET fd == w.devs[d].uiommu
        w1 == [WEmit(w, d, "VFIO_SET_UIOMMU_DOMAIN", -1) EXCEPT !.devs[d].kernel.domain = 0]
        ix == UiommuIndex(w1, fd)
    IN
    IF fd = 0 THEN w1
    ELSE
    LET w2 == [w1 EXCEPT !.uiommu_list[ix].vdevs = SeqRemove(@, d), !.devs[d].uiommu = 0] IN
    IF w2.uiommu_list[ix].vdevs = <<>>
    THEN LET dom == w2.uiommu_list[ix]
             w3  == [w2 EXCEPT !.mem_clients = SeqRemove(@, fd),
                               !.uiommu_list = SelectSeq(@, LAMBDA u : u.fd # fd)]
         IN  IF dom.opened
             THEN [w3 EXCEPT !.fds = @ \ {fd},
                             !.kdma = [f \in (DOMAIN @) \ {fd} |-> @[f]]]
             ELSE w3
    ELSE w2

(***************************************************************************)
(* Attach and detach.                                                      *)
(***************************************************************************)
\* the host functions modelled have no option ROM: the length query
\* answers 0 and nothing is loaded
vfio_load_rom(w, d) == WEmit(w, d, "VFIO_GET_BAR_LEN", PCI_ROM_SLOT)

\* memset of the BAR and ROM address registers in the emulated image
RECURSIVE ClearBytes(_, _, _)
ClearBytes(img, addr, n) ==
    IF n = 0 THEN img ELSE ClearBytes(Put(img, addr, 0), addr + 1, n - 1)

out_disable_vfiofd(w, d) == Ret(disable_vfio(w, d), d, -1)

out_disable_netlink(w, d) == out_disable_vfiofd(vfio_unregister_netlink(w, d), d)

out_disable_uiommu(w, d) == out_disable_netlink(disable_uiommu(w, d), d)

out_disable_msi(w, d) ==
    out_disable_uiommu([w EXCEPT !.devs[d] = vfio_teardown_msi(@)], d)

out_unmap_resources(w, d, e) == out_disable_msi(vfio_unmap_resources(w, d, e), d)

vfio_initfn(w, d, e) ==
    IF ~e.host_ok THEN Ret(WEmit(w, d, "error_report", "no such host device"), d, -1)
    ELSE Pick({
        IF w1.devs[d].ret # 0 THEN Ret(w1, d, -1)
        ELSE Pick({
            IF w2.devs[d].ret # 0 THEN out_disable_vfiofd(w2, d)
            ELSE Pick({
                IF w3.devs[d].ret # 0 THEN out_disable_netlink(w3, d)
                ELSE IF ~e.config_read_ok
                THEN out_disable_uiommu(
                         WEmit(w3, d, "fprintf", "Failed to read device config space"), d)
                ELSE Pick({
                    IF w5.devs[d].ret # 0 THEN out_disable_uiommu(w5, d)
                    ELSE Pick({
                        IF w6.devs[d].ret # 0 THEN out_disable_msi(w6, d)
                        ELSE Pick({
                            IF w7.devs[d].ret # 0 THEN out_unmap_resources(w7, d, e)
                            ELSE [w7 EXCEPT !.devs[d].attached = TRUE, !.devs[d].ret = 0]
                            : w7 \in {[w6 EXCEPT !.devs[d] = vfio_enable_intx(@, e)]}})
                        : w6 \in {[w5 EXCEPT !.devs[d] = vfio_map_resources(@, e)]}})
                    \* the emulated image is the device's with the BAR and ROM
                    \* address registers cleared
                    : w5 \in {[vfio_load_rom(
                                   [w3 EXCEPT !.devs[d].config =
                                       ClearBytes(ClearBytes(w3.devs[d].hw.config,
                                                             PCI_BASE_ADDRESS_0, 24),
                                                  PCI_ROM_ADDRESS, 4)],
                                   d)
                                 EXCEPT !.devs[d] = vfio_setup_msi(@, e)]}})
                : w3 \in {enable_uiommu(w2, d, e)}})
            : w2 \in {vfio_register_netlink(w1, d, e)}})
        : w1 \in {enable_vfio(w, d, e)}})

\* fault: the domain is left before the BARs are unmapped
vfio_exitfn_domain_first(w, d, e) ==
    LET w1 == [w EXCEPT !.devs[d] = vfio_disable_interrupts(@, e)]
        w2 == [w1 EXCEPT !.devs[d] = vfio_teardown_msi(@)]
        w3 == disable_uiommu(w2, d)
        w4 == vfio_unmap_resources(w3, d, e)
        w5 == vfio_unregister_netlink(w4, d)
        w6 == disable_vfio(w5, d)
    IN  [w6 EXCEPT !.devs[d].attached = FALSE, !.devs[d].ret = 0]

vfio_exitfn(w, d, e) ==
    LET w1 == [w EXCEPT !.devs[d] = vfio_disable_interrupts(@, e)]
        w2 == [w1 EXCEPT !.devs[d] = vfio_teardown_msi(@)]
        w3 == vfio_unmap_resources(w2, d, e)
        w4 == disable_uiommu(w3, d)
        w5 == vfio_unregister_netlink(w4, d)
        w6 == disable_vfio(w5, d)
    IN  [w6 EXCEPT !.devs[d].attached = FALSE, !.devs[d].ret = 0]

(***************************************************************************)
(* State: the process `w' and, for stating properties, the event the last  *)
(* step dispatched.                                                        *)
(***************************************************************************)
VARIABLES proc, ev

vars == <<proc, ev>>

NoEvent == [type |-> "none", dev |-> 0, arg |-> <<>>]

Event(type, dev, arg) == [type |-> type, dev |-> dev, arg |-> arg]

\* every handler starts with an empty call log and nothing sent
Fresh(x) == [x EXCEPT !.devs = [d \in Devices |-> [x.devs[d] EXCEPT !.log = <<>>]],
                      !.nl_sent = <<>>]

\* do_pci_register_device: the default write mask of a new PCIDevice
pci_init_wmask ==
    (PCI_COMMAND :> 7) @@ (PCI_COMMAND + 1 :> 4) @@ (12 :> 255)
    @@ (PCI_INTERRUPT_LINE :> 255)
    @@ [a \in PCI_CONFIG_HEADER_SIZE..(PCI_CONFIG_SPACE_SIZE - 1) |-> 255]

\* a device object as qdev creates it for host function `host' before its
\* init callback runs
NewDevice(host, p, props) ==
    [NoDevice EXCEPT !.host = host,
                     !.vfiofd_name = props.vfiofd_name,
                     !.uiommufd_name = props.uiommufd_name,
                     !.shared = props.shared,
                     !.wmask = pci_init_wmask,
                     !.hw = [config  |-> HwImage(p),
                             wmask   |-> HwWmask(p),
                             bar_len |-> [i \in BarSlots |-> p.bars[i].len]]]

DefaultProps == [vfiofd_name |-> 0, uiommufd_name |-> 0, shared |-> TRUE]

\* the process before any device is attached, over the given host functions
Boot(profile) ==
    [NoWorld EXCEPT !.devs = [d \in Devices |-> NewDevice(d, profile[d], DefaultProps)]]

(***************************************************************************)
(* Interrupt specification: one attached device; the guest writes its      *)
(* MSI and MSI-X enable bits and its header, the line fires, the guest     *)
(* acknowledges, the routing changes.                                      *)
(***************************************************************************)
IrqProfile(pin) ==
    [pin |-> pin, msi |-> TRUE, msix |-> TRUE, table_bar |-> 0, table_off |-> 0,
     bars |-> NoBars]

IrqWrites ==
    {[addr |-> MsiPos + PCI_CAP_FLAGS, len |-> 1, val |-> v] : v \in {0, 1}}
    \cup {[addr |-> MsixPos + PCI_CAP_FLAGS + 1, len |-> 1, val |-> v] : v \in {0, 128}}
    \cup {[addr |-> PCI_INTERRUPT_LINE, len |-> 1, val |-> 11]}

IrqRoutes == {10, 11, -1}

InitIrq ==
    /\ \E pin \in {0, 1} :
          proc = Fresh(vfio_initfn(Boot([d \in Devices |-> IrqProfile(pin)]), 1, AllOk))
    /\ ev = NoEvent

IrqConfigWrite ==
    \E wr \in IrqWrites, e \in IrqEnvs :
        /\ proc.devs[1].attached
        \* some paths leave notifiers behind: bound how many
        /\ Len(proc.devs[1].qemu.eoi) < MaxNotifiers
        /\ proc.devs[1].qemu.update_irq < MaxNotifiers
        /\ proc.devs[1].qemu.msix_used <= MaxNotifiers
        /\ proc.devs[1].qemu.vec_notifiers <= MaxNotifiers
        /\ proc' = [Fresh(proc) EXCEPT !.devs[1] = vfio_pci_write_config(@, wr.addr, wr.val, wr.len, e)]
        /\ ev' = Event("config_write", 1, <<wr.addr, wr.val, wr.len>>)

IrqInterrupt ==
    /\ proc.devs[1].kernel.intx /\ ~proc.devs[1].kernel.masked /\ proc.devs[1].qemu.intx_handler
    /\ proc' = [Fresh(proc) EXCEPT !.devs[1] = vfio_intx_interrupt([@ EXCEPT !.kernel.masked = TRUE])]
    /\ ev' = Event("intx", 1, <<>>)

IrqEoi ==
    \E irq \in IrqRoutes :
        /\ \E i \in 1..Len(proc.devs[1].qemu.eoi) : proc.devs[1].qemu.eoi[i] = irq
        /\ proc' = [Fresh(proc) EXCEPT !.devs[1] = vfio_eoi(@)]
        /\ ev' = Event("eoi", 1, <<irq>>)

IrqRouteChange ==
    \E irq \in IrqRoutes :
        /\ irq # proc.devs[1].qemu.route
        /\ proc' = LET w1 == [Fresh(proc) EXCEPT !.devs[1].qemu.route = irq] IN
                IF w1.devs[1].qemu.update_irq > 0
                THEN [w1 EXCEPT !.devs[1] = vfio_update_irq(@)]
                ELSE w1
        /\ ev' = Event("route", 1, <<irq>>)

NextIrq == IrqConfigWrite \/ IrqInterrupt \/ IrqEoi \/ IrqRouteChange

SpecIrq == InitIrq /\ [][NextIrq]_vars

(***************************************************************************)
(* Lifecycle specification: devices are attached and detached, the host    *)
(* sends hot-remove messages, removal timers expire, the guest toggles     *)
(* MSI.                                                                     *)
(***************************************************************************)
LifeProfile ==
    [pin |-> 1, msi |-> TRUE, msix |-> FALSE, table_bar |-> 0, table_off |-> 0,
     bars |-> [NoBars EXCEPT ![0] = [len |-> TARGET_PAGE_SIZE, kind |-> "mem"]]]

\* descriptors handed in through the vfiofd= and uiommufd= properties
GivenVfioFd(d) == 100 + d

GivenUiommuFd == 200

GivenProps(d) ==
    [vfiofd_name |-> GivenVfioFd(d), uiommufd_name |-> GivenUiommuFd, shared |-> TRUE]

\* the default properties or, for the first device, everything handed in
LifeProps(d) == {DefaultProps} \cup (IF d = 1 THEN {GivenProps(d)} ELSE {})

\* attach outcomes: everything succeeds or, for the first device, the last
\* step fails and everything is unwound
LifeEnvs(d) ==
    {AllOk} \cup (IF d = 1 THEN {[AllOk EXCEPT !.intx_ioctl_ok = FALSE]} ELSE {})

KernelPid == 0

NlMsg(pid, cmd, attrs, host) == [pid |-> pid, cmd |-> cmd, attrs |-> attrs, host |-> host]

\* a message as the argument of the event that delivers it, and back
NlArg(m) == <<m.pid, m.cmd, m.attrs, m.host>>

NlEvent(e) == NlMsg(e.arg[1], e.arg[2], e.arg[3], e.arg[4])

\* removal requests from the kernel for each device and for a host function
\* no device passes through; another command; a message from another
\* process; a message without the device attributes
NlMessages ==
    {NlMsg(KernelPid, "VFIO_MSG_REMOVE", TRUE, h) : h \in 1..(NumDevs + 1)}
    \cup {NlMsg(KernelPid, "VFIO_MSG_ERROR", TRUE, 1),
          NlMsg(7, "VFIO_MSG_REMOVE", TRUE, 1),
          NlMsg(KernelPid, "VFIO_MSG_REMOVE", FALSE, 1)}

Init ==
    /\ proc = [Boot([d \in Devices |-> LifeProfile]) EXCEPT !.phys = (0 :> IO_MEM_RAM)]
    /\ ev = NoEvent

\* device_add: a new device object for host function d, then its init
DeviceAdd(x, d, props, e) ==
    vfio_initfn([Fresh(x) EXCEPT !.devs[d] = NewDevice(d, LifeProfile, props)], d, e)

Attach(d) ==
    \E props \in LifeProps(d), e \in LifeEnvs(d) :
        /\ ~proc.aborted /\ ~proc.devs[d].attached
        /\ proc' = DeviceAdd(proc, d, props, e)
        /\ ev' = Event("attach", d, <<>>)

\* device_del, or the guest releasing the device after an unplug request
Detach(d) ==
    /\ ~proc.aborted /\ proc.devs[d].attached
    /\ proc' = vfio_exitfn(Fresh(proc), d, AllOk)
    /\ ev' = Event("detach", d, <<>>)

\* a message arrives on the netlink socket
Netlink ==
    \E m \in NlMessages :
        /\ ~proc.aborted /\ proc.nl_handle
        /\ proc.timer_seq < MaxTimers
        /\ proc' = vfio_parse_netlink(Fresh(proc), m)
        /\ ev' = Event("netlink", NlLookup(proc, m.host), NlArg(m))

\* a removal timer reaches its deadline
TimerFire ==
    \E t \in proc.timers :
        /\ ~proc.aborted
        /\ proc' = vfio_remove_abort([Fresh(proc) EXCEPT !.timers = @ \ {t}], t.dev)
        /\ ev' = Event("timer", t.dev, <<t.id>>)

\* the guest sets or clears the first device's MSI enable bit
GuestMsi ==
    \E v \in {0, 1} :
        /\ ~proc.aborted /\ proc.devs[1].attached
        /\ proc' = [Fresh(proc) EXCEPT
                       !.devs[1] = vfio_pci_write_config(@, MsiPos + PCI_CAP_FLAGS, v, 1, AllOk)]
        /\ ev' = Event("config_write", 1, <<MsiPos + PCI_CAP_FLAGS, v, 1>>)

Next ==
    \/ \E d \in Devices : Attach(d)
    \/ \E d \in Devices : Detach(d)
    \/ Netlink
    \/ TimerFire
    \/ GuestMsi

Spec == Init /\ [][Next]_vars

(***************************************************************************)
(* Domain specification: devices join and leave IOMMU domains under every  *)
(* combination of the sharing flag and a handed-in domain descriptor,      *)
(* attach may fail at any step after the join, and the guest's RAM layout  *)
(* changes.                                                                *)
(***************************************************************************)
DomainProps ==
    {[vfiofd_name |-> 0, uiommufd_name |-> u, shared |-> s] :
        u \in {0, GivenUiommuFd}, s \in BOOLEAN}

\* the join itself fails, or a later step does and the join is undone
DomainEnvs ==
    {AllOk,
     [AllOk EXCEPT !.uiommu_ok = FALSE],
     [AllOk EXCEPT !.intx_ioctl_ok = FALSE]}

DomainAttach(d) ==
    \E props \in DomainProps, e \in DomainEnvs :
        /\ ~proc.devs[d].attached
        \* the second device always attaches
        /\ d = 1 \/ e = AllOk
        /\ Cardinality(proc.fds) < MaxFds
        /\ proc' = DeviceAdd(proc, d, props, e)
        /\ ev' = Event("attach", d, <<>>)

DomainDetach(d) ==
    /\ proc.devs[d].attached
    /\ proc' = vfio_exitfn(Fresh(proc), d, AllOk)
    /\ ev' = Event("detach", d, <<>>)

\* QEMU maps or unmaps the guest's RAM page
MemoryChange ==
    \E desc \in {IO_MEM_RAM, IO_MEM_UNASSIGNED} :
        /\ proc' = cpu_register_physical_memory(Fresh(proc), 0, TARGET_PAGE_SIZE, desc, AllOk)
        /\ ev' = Event("memory", 0, <<desc>>)

NextDomain ==
    \/ \E d \in Devices : DomainAttach(d)
    \/ \E d \in Devices : DomainDetach(d)
    \/ MemoryChange

SpecDomain == Init /\ [][NextDomain]_vars

(***************************************************************************)
(* BAR specification: the first device sits on a host function whose BAR   *)
(* layout and MSI-X table position vary; it is attached (any step of the   *)
(* resource setup may fail), the guest programs its BARs, it is detached.  *)
(***************************************************************************)
BarLayouts ==
    {[len |-> 0, kind |-> "mem"], [len |-> 4096, kind |-> "mem"],
     [len |-> 8192, kind |-> "mem"], [len |-> 12288, kind |-> "mem"],
     [len |-> 8192, kind |-> "mem64"], [len |-> 256, kind |-> "mem"],
     [len |-> 32, kind |-> "io"]}

\* BAR 0 takes every layout, BAR 2 is absent or one page; with MSI-X the
\* table sits in BAR 0 at offset 0 or 0x1000
BarProfiles ==
    {[pin |-> 1, msi |-> FALSE, msix |-> x, table_bar |-> 0, table_off |-> o,
      bars |-> [NoBars EXCEPT ![0] = b0, ![2] = b2]] :
        x \in BOOLEAN, o \in {0, 4096}, b0 \in BarLayouts,
        b2 \in {NoBar, [len |-> 4096, kind |-> "mem"]}}

BarEnvs ==
    {[AllOk EXCEPT !.bar_fail = f] :
        f \in {NoFail, [slot |-> 0, kind |-> "len"], [slot |-> 0, kind |-> "mmap0"],
               [slot |-> 0, kind |-> "mmap1"], [slot |-> 2, kind |-> "read"]}}
    \cup {[AllOk EXCEPT !.intx_ioctl_ok = FALSE]}

\* guest physical addresses the guest programs a BAR to
BarBases == {65536, 131072}

InitBar ==
    /\ \E p \in BarProfiles :
          (p.msix \/ p.table_off = 0) /\
          proc = [Boot([d \in Devices |-> IF d = 1 THEN p ELSE LifeProfile])
                    EXCEPT !.phys = (0 :> IO_MEM_RAM)]
    /\ ev = NoEvent

\* device_add on the host function the first device object was on
BarAttach ==
    \E e \in BarEnvs :
        /\ ~proc.devs[1].attached
        /\ proc' = vfio_initfn(
                       [Fresh(proc) EXCEPT !.devs[1] =
                           [NewDevice(1, LifeProfile, DefaultProps) EXCEPT !.hw = proc.devs[1].hw]],
                       1, e)
        /\ ev' = Event("attach", 1, <<>>)

BarDetach ==
    /\ proc.devs[1].attached
    /\ proc' = vfio_exitfn(Fresh(proc), 1, AllOk)
    /\ ev' = Event("detach", 1, <<>>)

\* the guest programs a registered BAR: pci_update_mappings calls the
\* BAR's map callback with the new address and the registered size
BarProgram ==
    \E b \in proc.devs[1].qemu.pci_bars, e_phys \in BarBases :
        /\ proc.devs[1].attached
        /\ proc' = IF b.type = "io"
                   THEN vfio_ioport_map(Fresh(proc), 1, b.bar, e_phys, b.size)
                   ELSE vfio_iomem_map(Fresh(proc), 1, b.bar, e_phys, b.size, AllOk)
        /\ ev' = Event("bar_map", 1, <<b.bar, e_phys>>)

NextBar == BarAttach \/ BarDetach \/ BarProgram

SpecBar == InitBar /\ [][NextBar]_vars

(***************************************************************************)
(* DMA specification: the first device is attached with no guest memory    *)
(* registered; QEMU registers and unregisters ranges of guest memory of    *)
(* one to five pages, a map call may fail, the device is detached and      *)
(* attached again.                                                         *)
(***************************************************************************)
\* start addresses, sizes (one of them not page aligned) and descriptors
\* (RAM at offset 0x10000, or unassigned) of the ranges registered
DmaStarts == {0, TARGET_PAGE_SIZE}

DmaSizes == {3 * TARGET_PAGE_SIZE, 5 * TARGET_PAGE_SIZE, 100}

\* every start with every size, and a range whose start is not page aligned
DmaRanges == (DmaStarts \X DmaSizes) \cup {<<100, TARGET_PAGE_SIZE>>}

DmaDescs == {65536 + IO_MEM_RAM, IO_MEM_UNASSIGNED}

\* every map call succeeds, or the first or the second of the handler fails
DmaEnvs == {[AllOk EXCEPT !.dma_fail = n] : n \in 0..2}

InitDma ==
    /\ proc = Fresh(vfio_initfn(Boot([d \in Devices |-> LifeProfile]), 1, AllOk))
    /\ ev = NoEvent

DmaMemory ==
    \E r \in DmaRanges, desc \in DmaDescs, e \in DmaEnvs :
      \E start \in {r[1]}, size \in {r[2]} :
        /\ proc' = cpu_register_physical_memory(Fresh(proc), start, size, desc, e)
        /\ ev' = Event("memory", 0, <<start, size, desc>>)

DmaAttach ==
    /\ ~proc.devs[1].attached
    /\ proc' = DeviceAdd(proc, 1, DefaultProps, AllOk)
    /\ ev' = Event("attach", 1, <<>>)

DmaDetach ==
    /\ proc.devs[1].attached
    /\ proc' = vfio_exitfn(Fresh(proc), 1, AllOk)
    /\ ev' = Event("detach", 1, <<>>)

NextDma == DmaMemory \/ DmaAttach \/ DmaDetach

SpecDma == InitDma /\ [][NextDma]_vars

(***************************************************************************)
(* Config space specification: the first device is attached; the guest     *)
(* writes and reads one or two bytes of its config space, in and out of    *)
(* the emulated windows; a positioned read or write may fail.              *)
(***************************************************************************)
\* registers the device keeps read-only (vendor id, a device specific one),
\* partly writable (command), writable (interrupt line, device specific),
\* and registers in the emulated windows (MSI flags, ROM address)
CfgAddrs == {0, PCI_COMMAND, DevSpecific, MsiPos + PCI_CAP_FLAGS, PCI_ROM_ADDRESS}

CfgLens == {1, 2}

CfgVals(addr, len) ==
    IF addr = MsiPos + PCI_CAP_FLAGS THEN {0}
    ELSE {1, 255} \cup (IF len = 2 THEN {65535} ELSE {})

NoWrite == [addr |-> -1, len |-> 0, val |-> 0, ok |-> FALSE, before |-> 0, mask |-> 0]

InitCfg ==
    /\ \E msi \in BOOLEAN :
          proc = Fresh(vfio_initfn(Boot([d \in Devices |-> [IrqProfile(1) EXCEPT !.msi = msi]]),
                                   1, AllOk))
    /\ ev = NoEvent

\* the event records what the device held in the bytes written and which
\* of their bits it lets be written
CfgWrite ==
    \E addr \in CfgAddrs, len \in CfgLens, ok \in BOOLEAN :
        \E val \in CfgVals(addr, len) :
            /\ proc' = [Fresh(proc) EXCEPT
                           !.devs[1] = vfio_pci_write_config(@, addr, val, len,
                                                             [AllOk EXCEPT !.pwrite_ok = ok])]
            /\ ev' = Event("config_write", 1,
                           [addr |-> addr, len |-> len, val |-> val, ok |-> ok,
                            before |-> GetLE(proc.devs[1].hw.config, addr, len),
                            mask |-> GetLE(proc.devs[1].hw.wmask, addr, len)])

\* the guest reads back the bytes it has just written; the event records
\* the value read and the write
CfgRead ==
    \E ok \in BOOLEAN :
        /\ ev.type = "config_write"
        /\ proc' = Fresh(proc)
        /\ ev' = Event("config_read", 1,
                       [addr |-> ev.arg.addr, len |-> ev.arg.len, ok |-> ok,
                        result |-> vfio_pci_read_config(proc.devs[1], ev.arg.addr, ev.arg.len,
                                                        [AllOk EXCEPT !.pread_ok = ok]),
                        wr |-> ev.arg])

NextCfg == CfgWrite \/ CfgRead

SpecCfg == InitCfg /\ [][NextCfg]_vars

(***************************************************************************)
(* Interrupt mode properties.                                              *)
(***************************************************************************)
\* the kind of registration a call on the kernel channel establishes, or
\* INT_NONE when it establishes none
Establishes(c) ==
    IF c.call = "VFIO_SET_IRQ_EVENTFD" /\ c.arg = 1 THEN INT_INTx
    ELSE IF c.call = "VFIO_SET_MSI_EVENTFDS" /\ c.arg > 0 THEN INT_MSI
    ELSE IF c.call = "VFIO_SET_MSIX_EVENTFDS" /\ c.arg > 0 THEN INT_MSIX
    ELSE INT_NONE

\* C1: every mode switch disables the previously active mode before the
\* next one is enabled: whenever a handler issues the call that registers
\* mode Y on the kernel channel, no registration of a different mode is
\* live at that moment; in particular no MSI or MSI-X vector set is
\* registered while the INTx sink is still registered.
C1_DisableBeforeEnable ==
    \A i \in 1..Len(proc.devs[1].log) :
        LET c == proc.devs[1].log[i] IN
        Establishes(c) # INT_NONE => c.live \subseteq {Establishes(c)}

\* C2: between events at most one kind of registration is live on the
\* kernel channel, and it is the one the recorded mode names (none when the
\* mode is INT_NONE).
C2_LiveIsRecordedMode ==
    proc.devs[1].attached =>
        Live(proc.devs[1]) = (IF proc.devs[1].interrupt = INT_NONE THEN {}
                              ELSE {proc.devs[1].interrupt})

(***************************************************************************)
(* Hot-remove properties.                                                  *)
(***************************************************************************)
\* C3: when the removal timer armed by a REMOVE message for a registered
\* device fires before the device is detached, the process terminates: the
\* timer step ends in the aborted state, and no step is ever taken from an
\* aborted state.
C3_TimeoutTerminates ==
    [][~proc.aborted /\ (ev'.type = "timer" => proc'.aborted)]_vars

C3_TimerFiredBeforeDetach ==
    /\ ev.type = "timer"
    /\ proc.aborted
    /\ proc.devs[ev.dev].attached
    /\ proc.devs[ev.dev].qemu.unplug > 0

\* no device in the hot-remove registry has this host address
Unregistered(x, host) ==
    \A i \in 1..Len(x.nl_list) : x.devs[x.nl_list[i]].host # host

\* C4: a REMOVE message naming a host address that no device in the
\* hot-remove registry has arms no timer, requests no unplug and changes
\* nothing: apart from the handler's return value the process is as it was.
C4_UnregisteredRemoveIsNoOp ==
    [][(/\ ev'.type = "netlink"
        /\ NlEvent(ev').attrs
        /\ NlEvent(ev').cmd = "VFIO_MSG_REMOVE"
        /\ Unregistered(proc, NlEvent(ev').host))
       => [proc' EXCEPT !.nl_ret = 0] = [Fresh(proc) EXCEPT !.nl_ret = 0]]_vars

\* a kernel REMOVE for the first device after it was detached, while the
\* second device keeps the registry and the socket alive
C4_RemoveAfterDetach ==
    /\ ev.type = "netlink"
    /\ NlEvent(ev) = NlMsg(KernelPid, "VFIO_MSG_REMOVE", TRUE, 1)
    /\ ~proc.devs[1].attached /\ proc.devs[1].vfiofd # 0
    /\ proc.devs[2].attached
    /\ Unregistered(proc, 1)

(***************************************************************************)
(* Detach order.                                                           *)
(***************************************************************************)
\* the teardown step a logged call belongs to, 0 for calls that are none
TeardownStep(call) ==
    CASE call \in {"VFIO_SET_IRQ_EVENTFD", "VFIO_SET_IRQ_EVENTFD_failed",
                   "VFIO_SET_MSI_EVENTFDS", "VFIO_SET_MSIX_EVENTFDS",
                   "VFIO_UNMASK_IRQ"} -> 1
      [] call \in {"msi_uninit", "msix_uninit"} -> 2
      [] call \in {"munmap", "cpu_unregister_io_memory",
                   "VFIO_UNMAP_DMA", "VFIO_UNMAP_DMA_failed"} -> 3
      [] call = "VFIO_SET_UIOMMU_DOMAIN" -> 4
      [] call = "QLIST_REMOVE" -> 5
      [] call = "close" -> 6
      [] OTHER -> 0

StepsIn(log) == {TeardownStep(log[i].call) : i \in 1..Len(log)} \ {0}

\* C9: detach disables interrupts, tears down the capability state, unmaps
\* the BARs, leaves the IOMMU domain, unregisters from hot-remove and
\* closes the channel descriptor, in this order: in the calls of a detach
\* no call of a later step precedes a call of an earlier one, and every
\* step is there (the close only when the device opened the descriptor).
C9_DetachOrder ==
    ev.type = "detach" =>
        LET log == proc.devs[ev.dev].log IN
        /\ \A i, j \in 1..Len(log) :
              (i < j /\ TeardownStep(log[i].call) # 0 /\ TeardownStep(log[j].call) # 0)
                  => TeardownStep(log[i].call) <= TeardownStep(log[j].call)
        /\ {1, 2, 3, 4, 5} \subseteq StepsIn(log)
        /\ 6 \in StepsIn(log) <=> proc.devs[ev.dev].vfiofd_name = 0

C9_DetachedAllSteps ==
    /\ ev.type = "detach"
    /\ StepsIn(proc.devs[ev.dev].log) = {1, 2, 3, 4, 5, 6}
    /\ \E i \in 1..Len(proc.devs[ev.dev].log) : proc.devs[ev.dev].log[i].call = "munmap"

(***************************************************************************)
(* IOMMU domain registry.                                                  *)
(***************************************************************************)
Members(u) == {u.vdevs[i] : i \in 1..Len(u.vdevs)}

\* C10: every domain in the registry has a member, every attached device
\* refers to a registry domain that has it as a member, every registered
\* memory listener belongs to a registry domain, and no notification has
\* found its domain without a member.
C10_DomainsHaveMembers ==
    /\ \A i \in 1..Len(proc.uiommu_list) : proc.uiommu_list[i].vdevs # <<>>
    /\ \A d \in Devices :
          proc.devs[d].attached =>
              \E i \in 1..Len(proc.uiommu_list) :
                  /\ proc.uiommu_list[i].fd = proc.devs[d].uiommu
                  /\ d \in Members(proc.uiommu_list[i])
    /\ \A k \in 1..Len(proc.mem_clients) :
          \E i \in 1..Len(proc.uiommu_list) : proc.uiommu_list[i].fd = proc.mem_clients[k]
    /\ ~proc.no_vdevs

\* a notification acted through the member that is left after the other
\* device has gone
C10_NotifiedAfterLeave ==
    /\ ev.type = "memory"
    /\ \E d, o \in Devices :
          /\ proc.devs[d].attached
          /\ \E i \in 1..Len(proc.devs[d].log) :
                proc.devs[d].log[i].call \in {"VFIO_MAP_DMA", "VFIO_UNMAP_DMA"}
          /\ ~proc.devs[o].attached /\ proc.devs[o].vfiofd # 0 /\ proc.devs[o].ret = 0

(***************************************************************************)
(* BAR properties.                                                         *)
(***************************************************************************)
\* the direct mappings (mmap) of BAR i of device d
DirectMappings(d, i) == {m \in proc.devs[d].qemu.mmaps : m.bar = i}

\* BAR 0 of the first device is a set-up page aligned memory BAR of length
\* len that carries the MSI-X table at offset off
TableBar(len, off) ==
    /\ proc.devs[1].attached
    /\ proc.devs[1].hw.bar_len[0] = len
    /\ proc.devs[1].resources[0].valid
    /\ proc.devs[1].resources[0].mem /\ ~proc.devs[1].resources[0].slow
    /\ proc.devs[1].resources[0].msix
    /\ proc.devs[1].resources[0].msix_offset = off

\* C5 as stated: a page aligned memory BAR of length 0x2000 with the table
\* at 0x1000 has two direct mappings, one below and one above the table page.
C5_TwoDirectMappings ==
    TableBar(8192, 4096) =>
        \E lo, hi \in DirectMappings(1, 0) :
            /\ lo.len > 0 /\ lo.off + lo.len <= 4096
            /\ hi.len > 0 /\ hi.off >= 4096 + MSIX_PAGE_SIZE

\* C5 as the code has it: a page aligned memory BAR that carries the table
\* has a direct mapping of what lies below the table page when the table
\* offset is not 0, and one of what lies above it when its length exceeds
\* the table offset plus the page; for length 0x2000 and offset 0x1000 that
\* is the single mapping [0, 0x1000), and the guest sees that mapping
\* followed by the emulated table page and nothing else.
C5_MappingsAroundTable ==
    /\ \A len \in {4096, 8192, 12288}, off \in {0, 4096} :
          TableBar(len, off) =>
              DirectMappings(1, 0) =
                  (IF off # 0 THEN {[bar |-> 0, off |-> 0, len |-> off]} ELSE {})
                  \cup (IF len > off + MSIX_PAGE_SIZE
                        THEN {[bar |-> 0, off |-> off + MSIX_PAGE_SIZE,
                               len |-> len - off - MSIX_PAGE_SIZE]}
                        ELSE {})
    /\ TableBar(8192, 4096) =>
          /\ DirectMappings(1, 0) = {[bar |-> 0, off |-> 0, len |-> 4096]}
          /\ \A g \in proc.devs[1].qemu.guest_map :
                g.target[1] = 0 =>
                    \/ g.target = <<0, "memory_index", 0>> /\ g.size = 4096
                    \/ g.target = <<0, "msix_table">>

C5_TableBarProgrammed ==
    /\ TableBar(8192, 4096)
    /\ ev.type = "bar_map" /\ ev.arg[1] = 0
    /\ \E g \in proc.devs[1].qemu.guest_map : g.target = <<0, "msix_table">>

\* C7: a BAR slot whose length the channel reports as zero is never marked
\* valid, is never registered with the PCI core and is never mapped for
\* the guest, in any state.
C7_ZeroLengthNeverValid ==
    \A d \in Devices, i \in BarSlots :
        proc.devs[d].hw.bar_len[i] = 0 =>
            /\ ~proc.devs[d].resources[i].valid
            /\ \A b \in proc.devs[d].qemu.pci_bars : b.bar # i
            /\ \A g \in proc.devs[d].qemu.guest_map : g.target[1] # i

\* the setup went past a zero-length BAR 0 to BAR 2, and the guest has
\* programmed BAR 2 since
C7_ZeroLengthSkipped ==
    /\ proc.devs[1].attached
    /\ proc.devs[1].hw.bar_len[0] = 0
    /\ proc.devs[1].resources[2].valid
    /\ ev.type = "bar_map" /\ ev.arg[1] = 2

\* a message the process drops: it does not come from the kernel, it lacks
\* the device attributes, or it is not a removal request
Dropped(m) == m.pid # KernelPid \/ ~m.attrs \/ m.cmd # "VFIO_MSG_REMOVE"

\* C14: a dropped message changes nothing but the parser's return value: no
\* timer, no unplug request, no device or registry state.
C14_DroppedMessageIsNoOp ==
    [][(ev'.type = "netlink" /\ Dropped(NlEvent(ev')))
       => [proc' EXCEPT !.nl_ret = 0] = [Fresh(proc) EXCEPT !.nl_ret = 0]]_vars

\* the kernel sent a well formed message that is not a removal request for
\* a device that is registered
C14_OtherCommandForRegistered ==
    /\ ev.type = "netlink" /\ ev.dev = 1
    /\ NlEvent(ev) = NlMsg(KernelPid, "VFIO_MSG_ERROR", TRUE, 1)
    /\ proc.devs[1].attached
    /\ proc.timers = {}

\* the registration message of device d: its host address and a capability
\* mask that announces removal requests
RegisterMsg(x, d) ==
    [cmd |-> "VFIO_MSG_REGISTER", msgcap |-> {"VFIO_MSG_REMOVE"}, host |-> x.devs[d].host]

\* a netlink step acted on a removal request for device d: it asked the
\* guest to unplug it or armed a timer for it
ActedOnRemove(x, y, d) ==
    \/ y.devs[d].qemu.unplug # x.devs[d].qemu.unplug
    \/ \E t \in y.timers \ x.timers : t.dev = d

\* C15: a successful attach sends exactly one message, the device's
\* registration, and a removal request is acted on only for a device whose
\* attach, and so its registration, has completed before.
C15_RegisterPrecedesRemoval ==
    [][/\ (ev'.type = "attach" /\ proc'.devs[ev'.dev].attached)
          => proc'.nl_sent = <<RegisterMsg(proc', ev'.dev)>>
       /\ \A d \in Devices :
             (ev'.type = "netlink" /\ ActedOnRemove(Fresh(proc), proc', d))
             => (proc.devs[d].attached /\ NlEvent(ev').host = proc.devs[d].host)]_vars

\* a removal request for the first device was acted on
C15_RemovalActedOn ==
    /\ ev.type = "netlink" /\ ev.dev = 1
    /\ proc.devs[1].qemu.unplug = 1
    /\ \E t \in proc.timers : t.dev = 1 /\ t.id = proc.timer_seq

\* C13: a guest config write whose positioned write to the device fails is
\* dropped: it changes neither the emulated image nor the interrupt mode.
C13_FailedWriteDropped ==
    [][(ev'.type = "config_write" /\ ~ev'.arg.ok)
       => (/\ proc'.devs[1].config = proc.devs[1].config
           /\ proc'.devs[1].interrupt = proc.devs[1].interrupt)]_vars

(***************************************************************************)
(* MSI and MSI-X enable bits.                                              *)
(***************************************************************************)
\* the calls of a log that register vectors of the kind (an enable, failed
\* or not) and those that drop the kind's registration (a disable)
EnableCalls(log, msix) ==
    {i \in 1..Len(log) :
        \/ log[i].call = SetVectorsCall(msix) /\ log[i].arg > 0
        \/ log[i].call = SetVectorsCall(msix) \o "_failed"}

DisableCalls(log, msix) ==
    {i \in 1..Len(log) : log[i].call = SetVectorsCall(msix) /\ log[i].arg = 0}

\* the write [addr, addr + len) overlaps the kind's capability window
InWindow(s, msix, addr, len) ==
    IF msix
    THEN "MSIX" \in s.cap_present /\ ranges_overlap(addr, len, s.msix_cap, MSIX_CAP_LENGTH)
    ELSE "MSI" \in s.cap_present /\ ranges_overlap(addr, len, s.msi_cap, s.msi_cap_size)

EnableBit(s, msix) == IF msix THEN msix_enabled(s) ELSE msi_enabled(s)

\* C16: a guest write that overlaps the MSI or the MSI-X window enables
\* that kind once when its enable bit goes from 0 to 1, disables it once
\* when the bit goes from 1 to 0, and does neither when the bit is left as
\* it was.
C16_OncePerTransition ==
    [][\A msix \in BOOLEAN :
          (ev'.type = "config_write"
           /\ InWindow(proc.devs[1], msix, ev'.arg[1], ev'.arg[3]))
          => (/\ Cardinality(EnableCalls(proc'.devs[1].log, msix)) =
                    (IF ~EnableBit(proc.devs[1], msix) /\ EnableBit(proc'.devs[1], msix)
                     THEN 1 ELSE 0)
              /\ Cardinality(DisableCalls(proc'.devs[1].log, msix)) =
                    (IF EnableBit(proc.devs[1], msix) /\ ~EnableBit(proc'.devs[1], msix)
                     THEN 1 ELSE 0))]_vars

\* the guest wrote the MSI enable bit as 1 while MSI was on: nothing was
\* enabled again
C16_RewriteOfSetBit ==
    /\ ev.type = "config_write"
    /\ ev.arg = <<MsiPos + PCI_CAP_FLAGS, 1, 1>>
    /\ proc.devs[1].interrupt = INT_MSI
    /\ EnableCalls(proc.devs[1].log, FALSE) = {}

\* the read [addr, addr + len) overlaps the option ROM address register or
\* the window of a capability the device has
ServedLocally(s, addr, len) ==
    \/ ranges_overlap(addr, len, PCI_ROM_ADDRESS, 4)
    \/ InWindow(s, FALSE, addr, len)
    \/ InWindow(s, TRUE, addr, len)

C18_ForwardedFirst ==
    [][ev'.type = "config_write"
       => (/\ Len(proc'.devs[1].log) >= 1
           /\ proc'.devs[1].log[1].call = "pwrite"
           /\ proc'.devs[1].log[1].arg =
                  <<ev'.arg[1], ev'.arg[3], LowBytes(ev'.arg[2], ev'.arg[3])>>
           /\ \A i \in 2..Len(proc'.devs[1].log) : proc'.devs[1].log[i].call # "pwrite"
           /\ ev'.arg[1] < PCI_CONFIG_HEADER_SIZE
              => proc'.devs[1].config =
                    PutMasked(proc.devs[1].config, proc.devs[1].wmask,
                              ev'.arg[1], ev'.arg[2], ev'.arg[3]))]_vars

\* the guest set the MSI enable bit: the write went to the device and the
\* vectors were registered after it
C18_EnableAfterForward ==
    /\ ev.type = "config_write"
    /\ ev.arg = <<MsiPos + PCI_CAP_FLAGS, 1, 1>>
    /\ proc.devs[1].log[1].call = "pwrite"
    /\ \E i \in EnableCalls(proc.devs[1].log, FALSE) : i > 1

\* the handler's bulk vector registration failed
EnableFailed(log) ==
    \E i \in 1..Len(log) :
        log[i].call \in {SetVectorsCall(FALSE) \o "_failed", SetVectorsCall(TRUE) \o "_failed"}

\* going from s to s2 nothing of an enable attempt is left: the vector
\* count is zero, and the notifiers and the MSI-X vectors in use are those
\* of before less the ones of the mode that was disabled
AttemptUnwound(s, s2) ==
    /\ s2.nr_vectors = 0
    /\ s2.qemu.vec_notifiers = s.qemu.vec_notifiers - s.nr_vectors
    /\ s2.qemu.msix_used =
          s.qemu.msix_used - (IF s.interrupt = INT_MSIX THEN s.nr_vectors ELSE 0)

\* the handler registered the INTx eventfd
IntxRegistered(log) ==
    \E i \in 1..Len(log) : log[i].call = "VFIO_SET_IRQ_EVENTFD" /\ log[i].arg > 0

IntxCalls(log) ==
    {i \in 1..Len(log) :
        log[i].call \in {"VFIO_SET_IRQ_EVENTFD", "VFIO_SET_IRQ_EVENTFD_failed"}}

\* C20: when the guest clears the enable bit of the kind that is the mode,
\* the kind's vectors are dropped on the channel before INTx is registered,
\* no vector, vector notifier or MSI-X vector use of the mode is left, a
\* device without an interrupt pin ends in mode NONE without any INTx call,
\* and a device with a pin has INTx attempted once and ends in mode INTx
\* when the registration succeeded and in mode NONE when it did not.
C20_DisableFallsBackToIntx ==
    [][\A msix \in BOOLEAN :
          (/\ ev'.type = "config_write"
           /\ InWindow(proc.devs[1], msix, ev'.arg[1], ev'.arg[3])
           /\ EnableBit(proc.devs[1], msix) /\ ~EnableBit(proc'.devs[1], msix)
           /\ proc.devs[1].interrupt = (IF msix THEN INT_MSIX ELSE INT_MSI))
          => (/\ AttemptUnwound(proc.devs[1], proc'.devs[1])
              /\ (IF msix THEN proc'.devs[1].kernel.msix ELSE proc'.devs[1].kernel.msi) = 0
              /\ \A i \in DisableCalls(proc'.devs[1].log, msix),
                    j \in IntxCalls(proc'.devs[1].log) : i < j
              /\ IF vfio_pci_read_config(proc.devs[1], PCI_INTERRUPT_PIN, 1, AllOk) % 256 = 0
                 THEN /\ proc'.devs[1].interrupt = INT_NONE
                      /\ IntxCalls(proc'.devs[1].log) = {}
                      /\ proc'.devs[1].qemu.update_irq = proc.devs[1].qemu.update_irq
                 ELSE /\ proc'.devs[1].qemu.update_irq = proc.devs[1].qemu.update_irq + 1
                      /\ proc'.devs[1].interrupt =
                            (IF IntxRegistered(proc'.devs[1].log) THEN INT_INTx ELSE INT_NONE))]_vars

\* the guest cleared the MSI-X enable bit, the MSI-X vectors were dropped
\* on the channel and INTx was registered after that: the mode is INTx
C20_MsixOffIntxOn ==
    /\ ev.type = "config_write"
    /\ ev.arg = <<MsixPos + PCI_CAP_FLAGS + 1, 0, 1>>
    /\ DisableCalls(proc.devs[1].log, TRUE) # {}
    /\ IntxRegistered(proc.devs[1].log)
    /\ proc.devs[1].kernel.msix = 0 /\ proc.devs[1].kernel.intx
    /\ proc.devs[1].interrupt = INT_INTx
    /\ proc.devs[1].nr_vectors = 0

(***************************************************************************)
(* Attach failure.                                                         *)
(***************************************************************************)
\* nothing of device d is left in the process: it is in no registry and no
\* domain, it has no BAR mapping, no interrupt registration on the channel,
\* no notifier or event handler, and the descriptor the core opened for it
\* is closed
Unwound(x, d) ==
    /\ \A i \in 1..Len(x.nl_list) : x.nl_list[i] # d
    /\ \A i \in 1..Len(x.uiommu_list) : d \notin Members(x.uiommu_list[i])
    /\ x.devs[d].qemu.mmaps = {}
    /\ Live(x.devs[d]) = {}
    /\ x.devs[d].qemu.eoi = <<>> /\ x.devs[d].qemu.update_irq = 0
    /\ ~x.devs[d].qemu.intx_notifier /\ ~x.devs[d].qemu.intx_handler
    /\ x.devs[d].qemu.vec_notifiers = 0
    /\ x.devs[d].vfiofd_name = 0 => x.devs[d].vfiofd \notin x.fds

\* C12: an attach that fails at any step returns failure and leaves nothing
\* of the device behind.
C12_FailedAttachUnwound ==
    (ev.type = "attach" /\ ~proc.devs[1].attached)
    => (proc.devs[1].ret = -1 /\ Unwound(proc, 1))

(***************************************************************************)
(* DMA properties.                                                         *)
(***************************************************************************)
\* the arguments of the successful map calls in a call log, in order
MapCalls(log) ==
    LET ix == SelectSeq([i \in 1..Len(log) |-> i], LAMBDA i : log[i].call = "VFIO_MAP_DMA")
    IN  [k \in 1..Len(ix) |-> log[ix[k]].arg]

NoCallFailed(log) ==
    \A i \in 1..Len(log) : log[i].call \notin {"VFIO_MAP_DMA_failed", "VFIO_UNMAP_DMA_failed"}

RECURSIVE SumSizes(_)
SumSizes(calls) == IF calls = <<>> THEN 0 ELSE Head(calls)[3] + SumSizes(Tail(calls))

\* calls are chunks of the request (vaddr, start, size): each <<vaddr,
\* dmaaddr, size>> is at most the maximum, the first starts at the request's
\* addresses, each next starts where the one before ended in both address
\* spaces, and the sizes add up to the request's
Chunked(calls, vaddr, start, size) ==
    /\ calls # <<>>
    /\ \A k \in 1..Len(calls) : calls[k][3] > 0 /\ calls[k][3] <= VFIO_MAX_MAP_SIZE
    /\ calls[1][1] = vaddr /\ calls[1][2] = start
    /\ \A k \in 1..(Len(calls) - 1) :
          /\ calls[k + 1][1] = calls[k][1] + calls[k][3]
          /\ calls[k + 1][2] = calls[k][2] + calls[k][3]
    /\ SumSizes(calls) = size

\* C6: a page aligned RAM range larger than the maximum chunk that is
\* registered while a domain listens is mapped, when no call fails, by calls
\* that are chunks of the request.
C6_ChunksCoverRequest ==
    (/\ ev.type = "memory"
     /\ ev.arg[2] > VFIO_MAX_MAP_SIZE /\ ev.arg[2] % TARGET_PAGE_SIZE = 0
     /\ ev.arg[3] % TARGET_PAGE_SIZE = IO_MEM_RAM
     /\ proc.devs[1].attached
     /\ NoCallFailed(proc.devs[1].log))
    => Chunked(MapCalls(proc.devs[1].log), RamHostBase + ev.arg[3], ev.arg[1], ev.arg[2])

\* five pages went out as three calls
C6_FivePagesThreeCalls ==
    /\ ev.type = "memory"
    /\ ev.arg[2] = 5 * TARGET_PAGE_SIZE
    /\ ev.arg[3] = 65536 + IO_MEM_RAM
    /\ proc.devs[1].attached
    /\ NoCallFailed(proc.devs[1].log)
    /\ Len(MapCalls(proc.devs[1].log)) = 3

\* the calls of a log that reached the kernel's DMA interface
DmaCalls(log) ==
    {i \in 1..Len(log) : log[i].call \in {"VFIO_MAP_DMA", "VFIO_MAP_DMA_failed",
                                          "VFIO_UNMAP_DMA", "VFIO_UNMAP_DMA_failed"}}

\* C11: every DMA map or unmap call issued on the channel, whatever the
\* memory notification behind it, has a page aligned IOVA and a page
\* aligned size.
C11_DmaCallsPageAligned ==
    \A d \in Devices :
        \A i \in DmaCalls(proc.devs[d].log) :
            /\ proc.devs[d].log[i].arg[2] % TARGET_PAGE_SIZE = 0
            /\ proc.devs[d].log[i].arg[3] % TARGET_PAGE_SIZE = 0

\* a notification found a page bound already and remapped it by itself:
\* the log holds a one page unmap followed by a one page map
C11_PageRemapped ==
    /\ ev.type = "memory"
    /\ \E i \in DmaCalls(proc.devs[1].log) :
          /\ proc.devs[1].log[i].call = "VFIO_UNMAP_DMA"
          /\ proc.devs[1].log[i].arg[3] = TARGET_PAGE_SIZE
          /\ i < Len(proc.devs[1].log)
          /\ proc.devs[1].log[i + 1].call = "VFIO_MAP_DMA"
          /\ proc.devs[1].log[i + 1].arg[3] = TARGET_PAGE_SIZE

(***************************************************************************)
(* Config space properties.                                                *)
(***************************************************************************)
\* a read that directly follows a forwarded write of the same bytes, both
\* outside the emulated windows
ReadAfterWrite ==
    /\ ev.type = "config_read"
    /\ ev.arg.ok
    /\ ev.arg.wr.ok
    /\ ev.arg.wr.addr = ev.arg.addr /\ ev.arg.wr.len = ev.arg.len
    /\ ~InEmulatedWindow(proc.devs[1], ev.arg.addr, ev.arg.len)

\* C8 as stated: the read returns the value written.
C8_ReadReturnsWritten ==
    ReadAfterWrite => ev.arg.result = ev.arg.wr.val

\* C8 as the code has it: the read is served by the device, which keeps
\* what it held in the bits it does not let be written and takes the value
\* written in the others.
C8_ReadReturnsDeviceContents ==
    ReadAfterWrite =>
        /\ ev.arg.result = GetLE(proc.devs[1].hw.config, ev.arg.addr, ev.arg.len)
        /\ ev.arg.result =
              BitAnd(ev.arg.wr.before, Pow2(8 * ev.arg.len) - 1 - ev.arg.wr.mask)
              + BitAnd(ev.arg.wr.val, ev.arg.wr.mask)

\* the device kept bits of the command register the guest tried to set
C8_ReadDiffersFromWritten ==
    /\ ReadAfterWrite
    /\ ev.arg.addr = PCI_COMMAND /\ ev.arg.len = 2
    /\ ev.arg.result # ev.arg.wr.val

(***************************************************************************)
(* INTx line properties.                                                   *)
(***************************************************************************)
\* the device but for the calls of the last handler
Quiet(s) == [s EXCEPT !.log = <<>>]

\* C21: while the mode is INTx the guest line is asserted exactly when an
\* interrupt is pending: an interrupt sets pending and raises the line, an
\* end of interrupt with one pending clears it, lowers the line and unmasks
\* the physical line, and an end of interrupt with none pending changes
\* nothing and unmasks nothing.
C21_LineFollowsPending ==
    [][proc.devs[1].interrupt = INT_INTx
       => (/\ (proc.devs[1].qemu.irq_level = 1) <=> proc.devs[1].intx.pending
           /\ ev'.type = "intx"
                => (/\ proc'.devs[1].intx.pending
                    /\ proc'.devs[1].qemu.irq_level = 1
                    /\ proc'.devs[1].log = <<>>)
           /\ (ev'.type = "eoi" /\ proc.devs[1].intx.pending)
                => (/\ ~proc'.devs[1].intx.pending
                    /\ proc'.devs[1].qemu.irq_level = 0
                    /\ ~proc'.devs[1].kernel.masked
                    /\ Len(proc'.devs[1].log) = 1
                    /\ proc'.devs[1].log[1].call = "VFIO_UNMASK_IRQ")
           /\ (ev'.type = "eoi" /\ ~proc.devs[1].intx.pending)
                => proc'.devs[1] = Quiet(proc.devs[1])
           /\ (ev'.type \in {"intx", "eoi"} /\ proc'.devs[1].interrupt = INT_INTx)
                => ((proc'.devs[1].qemu.irq_level = 1) <=> proc'.devs[1].intx.pending))]_vars

\* an end of interrupt arrived in mode INTx with nothing pending: the line
\* is low and nothing was unmasked
C21_EoiWithoutPending ==
    /\ ev.type = "eoi"
    /\ proc.devs[1].interrupt = INT_INTx
    /\ ~proc.devs[1].intx.pending /\ proc.devs[1].qemu.irq_level = 0
    /\ proc.devs[1].log = <<>>
    /\ ~proc.devs[1].kernel.masked

Covering(p) == {m \in DirectMappings(1, 0) : m.off <= p /\ p < m.off + m.len}

\* C23: once the guest has programmed a page aligned memory BAR that
\* carries the table, every page of the BAR but the table page lies in
\* exactly one direct mapping and the guest reaches it there at its own
\* offset in the BAR, and the table page lies in no direct mapping and the
\* guest reaches the table emulation there.
C23_PagesOfTableBar ==
    \A len \in {4096, 8192, 12288}, off \in {0, 4096} :
        (TableBar(len, off) /\ ev.type = "bar_map" /\ ev.arg[1] = 0) =>
            \A p \in {0, 4096, 8192} :
                p < len =>
                    /\ PageOf(ev.arg[2] + p) \in DOMAIN proc.phys
                    /\ IF p = off
                       THEN /\ Covering(p) = {}
                            /\ proc.phys[PageOf(ev.arg[2] + p)] = MsixIoMemIndex(0)
                       ELSE /\ Cardinality(Covering(p)) = 1
                            /\ \E k \in {0, 1} :
                                  /\ proc.devs[1].resources[0].r_virtbase[k + 1] \in Covering(p)
                                  /\ proc.phys[PageOf(ev.arg[2] + p)] =
                                        MemoryIndex(1, 0, k) + p
                                        - proc.devs[1].resources[0].r_virtbase[k + 1].off

\* the guest programmed a three page BAR with the table in its second
\* page: a mapping below, the table page, a mapping above
C23_TableInTheMiddle ==
    /\ TableBar(12288, 4096)
    /\ ev.type = "bar_map" /\ ev.arg[1] = 0
    /\ Cardinality(DirectMappings(1, 0)) = 2
    /\ proc.phys[PageOf(ev.arg[2] + 4096)] = MsixIoMemIndex(0)
    /\ proc.phys[PageOf(ev.arg[2] + 8192)] = MemoryIndex(1, 0, 1)

(***************************************************************************)
(* Capability scan specification: vfio_find_cap_offset runs over a config  *)
(* image, one evaluation of its loop condition and body per step.  The     *)
(* images have a list head and two nodes, at 64 and at 252, whose ids and  *)
(* next pointers vary: lists that end, that leave the capability area,     *)
(* that are not aligned, that run in a circle.                             *)
(***************************************************************************)
CapPointers == {0, 32, 64, 66, 255}

CapIds == {1, PCI_CAP_ID_MSI, 255}

CapImage(status, head, id1, next1, id2, next2) ==
    Put(Put(Put(Put(Put(Put(EmptyImg, PCI_STATUS, status), PCI_CAPABILITY_LIST, head),
                        64 + PCI_CAP_LIST_ID, id1), 64 + PCI_CAP_LIST_NEXT, next1),
                252 + PCI_CAP_LIST_ID, id2), 252 + PCI_CAP_LIST_NEXT, next2)

CapImages ==
    {CapImage(st, h, i1, n1, i2, n2) :
        st \in {0, PCI_STATUS_CAP_LIST}, h \in CapPointers,
        i1 \in CapIds, n1 \in CapPointers, i2 \in CapIds, n2 \in CapPointers}

\* the function is called: its arguments, its locals not yet set
CapCall(config, cap) ==
    [config |-> config, cap |-> cap, pc |-> "entry", pos |-> 0, max_cap |-> 0,
     hops |-> 0, reads |-> {}, ret |-> 0]

\* the declarations and the test of the status bit
CapEntry(c) ==
    LET c1 == [c EXCEPT !.max_cap = (PCI_CONFIG_SPACE_SIZE - PCI_CONFIG_HEADER_SIZE)
                                      \div PCI_CAP_SIZEOF,
                        !.pos = PCI_CAPABILITY_LIST,
                        !.reads = @ \cup {PCI_STATUS}]
    IN  IF BitAnd(Get(c.config, PCI_STATUS), PCI_STATUS_CAP_LIST) = 0
        THEN [c1 EXCEPT !.pc = "done", !.ret = 0]
        ELSE [c1 EXCEPT !.pc = "loop"]

\* fault: the loop does not count its iterations down
CapIter_no_limit(c) ==
    LET pos == Get(c.config, c.pos) - (Get(c.config, c.pos) % 4)
        c1  == [c EXCEPT !.hops = @ + 1, !.reads = @ \cup {c.pos}, !.pos = pos]
    IN  IF pos < PCI_CONFIG_HEADER_SIZE THEN [c1 EXCEPT !.pc = "done", !.ret = 0]
        ELSE LET id == Get(c.config, pos + PCI_CAP_LIST_ID)
                 c2 == [c1 EXCEPT !.reads = @ \cup {pos + PCI_CAP_LIST_ID}]
             IN  IF id = 255 THEN [c2 EXCEPT !.pc = "done", !.ret = 0]
                 ELSE IF id = c.cap THEN [c2 EXCEPT !.pc = "done", !.ret = pos]
                 ELSE [c2 EXCEPT !.pos = (pos + PCI_CAP_LIST_NEXT) % 256]

\* fault: the pointer is followed as it is read, its low bits included
CapIter_unmasked(c) ==
    IF c.max_cap = 0 THEN [c EXCEPT !.pc = "done", !.ret = 0]
    ELSE
    LET pos == Get(c.config, c.pos)
        c1  == [c EXCEPT !.max_cap = @ - 1, !.hops = @ + 1,
                         !.reads = @ \cup {c.pos}, !.pos = pos]
    IN  IF pos < PCI_CONFIG_HEADER_SIZE THEN [c1 EXCEPT !.pc = "done", !.ret = 0]
        ELSE LET id == Get(c.config, pos + PCI_CAP_LIST_ID)
                 c2 == [c1 EXCEPT !.reads = @ \cup {pos + PCI_CAP_LIST_ID}]
             IN  IF id = 255 THEN [c2 EXCEPT !.pc = "done", !.ret = 0]
                 ELSE IF id = c.cap THEN [c2 EXCEPT !.pc = "done", !.ret = pos]
                 ELSE [c2 EXCEPT !.pos = (pos + PCI_CAP_LIST_NEXT) % 256]

\* while (max_cap--) { ... }: the test and, when it passes, the body
CapIter(c) ==
    IF c.max_cap = 0 THEN [c EXCEPT !.pc = "done", !.ret = 0]
    ELSE
    LET pos == Get(c.config, c.pos) - (Get(c.config, c.pos) % 4)
        c1  == [c EXCEPT !.max_cap = @ - 1, !.hops = @ + 1,
                         !.reads = @ \cup {c.pos}, !.pos = pos]
    IN  IF pos < PCI_CONFIG_HEADER_SIZE THEN [c1 EXCEPT !.pc = "done", !.ret = 0]
        ELSE LET id == Get(c.config, pos + PCI_CAP_LIST_ID)
                 c2 == [c1 EXCEPT !.reads = @ \cup {pos + PCI_CAP_LIST_ID}]
             IN  IF id = 255 THEN [c2 EXCEPT !.pc = "done", !.ret = 0]
                 ELSE IF id = c.cap THEN [c2 EXCEPT !.pc = "done", !.ret = pos]
                 ELSE [c2 EXCEPT !.pos = (pos + PCI_CAP_LIST_NEXT) % 256]

InitCap ==
    /\ \E config \in CapImages, cap \in {PCI_CAP_ID_MSI, PCI_CAP_ID_MSIX} :
          proc = CapCall(config, cap)
    /\ ev = NoEvent

CapEnter ==
    /\ proc.pc = "entry"
    /\ proc' = CapEntry(proc)
    /\ ev' = Event("cap_entry", 0, <<>>)

CapHop ==
    /\ proc.pc = "loop"
    /\ proc' = CapIter(proc)
    /\ ev' = Event("cap_hop", 0, <<>>)

NextCap == CapEnter \/ CapHop

SpecCap == InitCap /\ [][NextCap]_vars

(***************************************************************************)
(* Capability scan properties.                                             *)
(***************************************************************************)
\* C24: the scan makes at most 48 hops: every evaluation of the loop ends
\* the scan or counts the hops that are left down by one, none is left
\* after 48, and every byte read lies in the 256 bytes of config space.
C24_ScanIsBounded ==
    [][proc.pc = "loop"
       => (/\ proc'.hops <= 48
           /\ proc'.reads \subseteq 0..(PCI_CONFIG_SPACE_SIZE - 1)
           /\ \/ proc'.pc = "done"
              \/ /\ proc'.pc = "loop"
                 /\ proc'.hops = proc.hops + 1
                 /\ proc'.max_cap = proc.max_cap - 1
                 /\ proc'.max_cap = 48 - proc'.hops)]_vars

\* a list that runs in a circle without the capability was scanned: the
\* scan ended after 48 hops with nothing found
C24_CircleScanned ==
    /\ proc.pc = "done" /\ proc.hops = 48 /\ proc.ret = 0
    /\ proc.max_cap = 0

\* the first n nodes of the list that starts with the pointer at ptr, as
\* the scan follows it
RECURSIVE ListFrom(_, _, _)
ListFrom(config, ptr, n) ==
    IF n = 0 THEN <<>>
    ELSE <<Get(config, ptr) - (Get(config, ptr) % 4)>>
         \o ListFrom(config,
                     (Get(config, ptr) - (Get(config, ptr) % 4) + PCI_CAP_LIST_NEXT) % 256,
                     n - 1)

\* the places in the list nodes where the id is cap, no earlier node has
\* it, and neither that node nor an earlier one lies below the capability
\* area or has the id 0xff
FirstMatch(config, cap, nodes) ==
    {i \in 1..Len(nodes) :
        /\ Get(config, nodes[i] + PCI_CAP_LIST_ID) = cap
        /\ \A j \in 1..i :
              /\ nodes[j] >= PCI_CONFIG_HEADER_SIZE
              /\ Get(config, nodes[j] + PCI_CAP_LIST_ID) # 255
        /\ \A j \in 1..(i - 1) : Get(config, nodes[j] + PCI_CAP_LIST_ID) # cap}

\* C25: the scan returns the first node of the list that has the id asked
\* for, and 0 when the status bit is not set or when the list ends, leaves
\* the capability area or reaches a node with id 0xff before; what it
\* returns when it is not 0 is at least 64 and a multiple of 4.
C25_FirstMatchReturned ==
    proc.pc = "done" =>
        /\ \E nodes \in {ListFrom(proc.config, PCI_CAPABILITY_LIST, 48)} :
              \E hits \in {FirstMatch(proc.config, proc.cap, nodes)} :
                 proc.ret =
                    (IF BitAnd(Get(proc.config, PCI_STATUS), PCI_STATUS_CAP_LIST) # 0
                        /\ hits # {}
                     THEN nodes[Pick(hits)] ELSE 0)
        /\ proc.ret # 0
              => (proc.ret >= PCI_CONFIG_HEADER_SIZE /\ proc.ret % 4 = 0)
        /\ proc.ret = vfio_find_cap_offset(proc.config, proc.cap)

\* the capability was found in the second node of a list whose first
\* pointer is not aligned
C25_FoundBehindUnalignedPointer ==
    /\ proc.pc = "done" /\ proc.ret = 252 /\ proc.hops = 2
    /\ Get(proc.config, PCI_CAPABILITY_LIST) = 66

(***************************************************************************)
(* IOMMU domains: listeners, joining and leaving.                          *)
(***************************************************************************)
\* the memory listeners registered for the domain fd
Listeners(x, fd) == {k \in 1..Len(x.mem_clients) : x.mem_clients[k] = fd}

\* the registry entries of the domain fd
Entries(x, fd) == {i \in 1..Len(x.uiommu_list) : x.uiommu_list[i].fd = fd}

\* C26: every domain of the registry has one memory listener and there is
\* no other listener.  An attach that creates a domain registers its
\* listener when the device is a member already, so that the backlog of
\* the guest's memory is sent to the kernel through it; an attach that joins a domain
\* leaves the listeners as they are, sets the kernel's domain of the
\* device and adds the device to the members.
C26_OneListenerPerDomain ==
    [][/\ \A i \in 1..Len(proc'.uiommu_list) :
             Cardinality(Listeners(proc', proc'.uiommu_list[i].fd)) = 1
       /\ Len(proc'.mem_clients) = Len(proc'.uiommu_list)
       /\ \A d \in Devices :
             (ev'.type = "attach" /\ ev'.dev = d /\ proc'.devs[d].attached)
             => IF Entries(proc, proc'.devs[d].uiommu) = {}
                THEN /\ proc'.mem_clients = <<proc'.devs[d].uiommu>> \o proc.mem_clients
                     /\ proc'.uiommu_list[1].vdevs = <<d>>
                     /\ ~proc'.no_vdevs
                     /\ 0 \in DOMAIN proc.phys
                          => \E i \in 1..Len(proc'.devs[d].log) :
                                proc'.devs[d].log[i].call \in
                                    {"VFIO_MAP_DMA", "VFIO_MAP_DMA_failed"}
                ELSE /\ proc'.mem_clients = proc.mem_clients
                     /\ Len(proc'.uiommu_list) = Len(proc.uiommu_list)
                     /\ proc'.devs[d].kernel.domain = proc'.devs[d].uiommu
                     /\ \A i \in 1..Len(proc.uiommu_list) :
                           proc'.uiommu_list[i] =
                              IF proc.uiommu_list[i].fd = proc'.devs[d].uiommu
                              THEN [proc.uiommu_list[i] EXCEPT !.vdevs = <<d>> \o @]
                              ELSE proc.uiommu_list[i]
                     /\ \A i \in 1..Len(proc'.devs[d].log) :
                           proc'.devs[d].log[i].call \notin
                               {"VFIO_MAP_DMA", "VFIO_MAP_DMA_failed"}]_vars

\* the second device has joined the domain the first device is in: two
\* members, one listener
C26_JoinedExisting ==
    /\ ev.type = "attach" /\ ev.dev = 2
    /\ proc.devs[1].attached /\ proc.devs[2].attached
    /\ proc.devs[1].uiommu = proc.devs[2].uiommu
    /\ Len(proc.uiommu_list) = 1 /\ Len(proc.uiommu_list[1].vdevs) = 2
    /\ Len(proc.mem_clients) = 1

\* the registry entry of the domain fd
Entry(x, fd) == x.uiommu_list[Pick(Entries(x, fd))]

\* C27: a device that is detached leaves its domain: the kernel's domain
\* of the device is reset and the device is no member any more.  When it
\* was the only member the domain's listener and registry entry go, and
\* the domain's descriptor is closed when the process had opened it and
\* is not when it had been handed in; when other members stay, the
\* listener, the entry and the descriptor stay.
C27_LeaveReleasesEmptyDomain ==
    [][\A d \in Devices :
          (ev'.type = "detach" /\ ev'.dev = d)
          => \E fd \in {proc.devs[d].uiommu} :
                /\ Cardinality(Entries(proc, fd)) = 1
                /\ proc'.devs[d].kernel.domain = 0
                /\ proc'.devs[d].uiommu = 0
                /\ \E i \in 1..Len(proc'.devs[d].log) :
                      /\ proc'.devs[d].log[i].call = "VFIO_SET_UIOMMU_DOMAIN"
                      /\ proc'.devs[d].log[i].arg = -1
                /\ \A i \in 1..Len(proc'.uiommu_list) : d \notin Members(proc'.uiommu_list[i])
                /\ IF Members(Entry(proc, fd)) = {d}
                   THEN /\ Entries(proc', fd) = {}
                        /\ Listeners(proc', fd) = {}
                        /\ Len(proc'.uiommu_list) = Len(proc.uiommu_list) - 1
                        /\ IF Entry(proc, fd).opened
                           THEN fd \in proc.fds /\ fd \notin proc'.fds
                                /\ fd \notin DOMAIN proc'.kdma
                           ELSE (fd \in proc'.fds <=> fd \in proc.fds)
                                /\ (fd \in DOMAIN proc.kdma => fd \in DOMAIN proc'.kdma)
                   ELSE /\ Entries(proc', fd) = Entries(proc, fd)
                        /\ Members(Entry(proc', fd)) = Members(Entry(proc, fd)) \ {d}
                        /\ Entry(proc', fd).opened = Entry(proc, fd).opened
                        /\ proc'.mem_clients = proc.mem_clients
                        /\ Len(proc'.uiommu_list) = Len(proc.uiommu_list)
                        /\ (fd \in proc'.fds <=> fd \in proc.fds)
                        /\ (fd \in DOMAIN proc.kdma => fd \in DOMAIN proc'.kdma)]_vars

\* the last member of a domain that had been handed in has left: the
\* registry is empty, no listener is left
C27_GivenDomainEmptied ==
    /\ ev.type = "detach"
    /\ proc.uiommu_list = <<>> /\ proc.mem_clients = <<>>
    /\ \A d \in Devices : ~proc.devs[d].attached
    /\ GivenUiommuFd \in DOMAIN proc.kdma

EventPages(e) == PageOf(e.arg[1])..PageOf(e.arg[1] + e.arg[2] - 1)

\* the host address the page pg of the event's range is to be bound to
Desired(e, pg) == qemu_get_ram_ptr(e.arg[3]) + pg * TARGET_PAGE_SIZE - e.arg[1]

\* the event registered page aligned RAM while the first device listened
RamRegistered(e, x) ==
    /\ e.type = "memory"
    /\ e.arg[1] % TARGET_PAGE_SIZE = 0 /\ e.arg[2] % TARGET_PAGE_SIZE = 0
    /\ e.arg[3] % TARGET_PAGE_SIZE = IO_MEM_RAM
    /\ x.devs[1].attached

\* the one page calls `call' of a log at the IOVA of page pg
PageCalls(log, call, pg) ==
    {i \in 1..Len(log) :
        /\ log[i].call = call
        /\ log[i].arg[2] = pg * TARGET_PAGE_SIZE /\ log[i].arg[3] = TARGET_PAGE_SIZE}

Reported(log) == \E i \in 1..Len(log) : log[i].call = "fprintf"

\* C29 as stated: when a map call of a newly registered range found the
\* IOVA bound and the handler reports no failure, a page that was bound to
\* the host page wanted gets no one page unmap or map, and every page of
\* the range is bound to the host page wanted in the end.
C29_WalkBindsEveryPage ==
    [][(/\ RamRegistered(ev', proc)
        /\ \E i \in 1..Len(proc'.devs[1].log) :
              proc'.devs[1].log[i].call = "VFIO_MAP_DMA_failed"
        /\ ~Reported(proc'.devs[1].log))
       => \A pg \in EventPages(ev') :
             /\ (pg \in DOMAIN KTable(proc, proc.devs[1].kernel.domain)
                 /\ KTable(proc, proc.devs[1].kernel.domain)[pg] = Desired(ev', pg))
                => (/\ PageCalls(proc'.devs[1].log, "VFIO_UNMAP_DMA", pg) = {}
                    /\ PageCalls(proc'.devs[1].log, "VFIO_MAP_DMA", pg) = {})
             /\ pg \in DOMAIN KTable(proc', proc'.devs[1].kernel.domain)
             /\ KTable(proc', proc'.devs[1].kernel.domain)[pg] = Desired(ev', pg)]_vars

\* the map calls of a log, failed ones included
MapAttempts(log) ==
    {i \in 1..Len(log) : log[i].call \in {"VFIO_MAP_DMA", "VFIO_MAP_DMA_failed"}}

NoInterruptState(s) ==
    /\ s.interrupt = INT_NONE
    /\ Live(s) = {}
    /\ ~s.qemu.intx_notifier /\ ~s.qemu.intx_handler
    /\ s.qemu.vec_notifiers = 0 /\ s.nr_vectors = 0
    /\ s.qemu.eoi = <<>> /\ s.qemu.update_irq = 0

\* C31 as stated: whatever the mode was when detach began, the calls of the
\* teardown steps after the first are issued with no interrupt registration
\* live on the channel, and the detached device has mode NONE and no
\* eventfd registration, notifier or subscription left.
C31_DetachLeavesNoInterrupt ==
    [][\A d \in Devices :
          (ev'.type = "detach" /\ ev'.dev = d)
          => (/\ NoInterruptState(proc'.devs[d])
              /\ \A i \in 1..Len(proc'.devs[d].log) :
                    TeardownStep(proc'.devs[d].log[i].call) >= 2
                        => proc'.devs[d].log[i].live = {})]_vars

(* The guest line outside INTx mode. *)
\* C32 as stated: whenever the recorded mode is not INTx the guest line the
\* device drives is low and the pending flag is clear.
C32_LineLowOutsideIntx ==
    proc.devs[1].interrupt /= INT_INTx
        => (proc.devs[1].qemu.irq_level = 0 /\ ~proc.devs[1].intx.pending)

(* Removal deadlines and detach. *)
\* C33 as stated: once a device's detach has completed no deadline timer
\* armed for that device is left to fire, however many removal requests were
\* received for it before, and a deadline that does fire belongs to a device
\* that is attached.
C33_DetachCancelsEveryDeadline ==
    [][/\ \A d \in Devices :
             (ev'.type = "detach" /\ ev'.dev = d)
             => \A t \in proc'.timers : t.dev # d
       /\ ev'.type = "timer" => proc.devs[ev'.dev].attached]_vars

(* The disable routines and the recorded mode. *)
\* C34 as stated: a guest config write runs the MSI disable routine only
\* while the recorded mode is MSI and the MSI-X disable routine only while it
\* is MSI-X, and the vector array is never released twice.
C34_DisableMatchesMode ==
    [][ev'.type = "config_write"
       => /\ \A msix \in BOOLEAN :
                DisableCalls(proc'.devs[1].log, msix) # {}
                => proc.devs[1].interrupt = (IF msix THEN INT_MSIX ELSE INT_MSI)
          /\ proc'.devs[1].msi_vectors # "double_free"]_vars

(* Domains of devices that do not share. *)
\* C36 as stated: a domain that has a member which joined with sharing
\* disabled and no handed-in descriptor, and so was opened for that member,
\* has no other member.
C36_UnsharedDomainHasOneMember ==
    \A i \in 1..Len(proc.uiommu_list) :
        (\E d \in Members(proc.uiommu_list[i]) :
            ~proc.devs[d].shared /\ proc.devs[d].uiommufd_name = 0)
        => Cardinality(Members(proc.uiommu_list[i])) = 1

(* BAR teardown against BAR setup. *)
\* the positions of a log at which the call was issued with the argument
CallsWith(log, call, arg) ==
    {i \in 1..Len(log) : log[i].call = call /\ log[i].arg = arg}

\* C37 as stated: a detach unmaps every direct mapping the device holds
\* exactly once, with the length it was mapped with, unregisters every
\* trapped-access handler it holds exactly once, and issues no unmap and no
\* release for anything else.
C37_TeardownMirrorsSetup ==
    [][ev'.type = "detach"
       => \E log \in {proc'.devs[1].log}, q \in {proc.devs[1].qemu} :
             /\ \A m \in q.mmaps :
                   Cardinality(CallsWith(log, "munmap", <<m.bar, m.off, m.len>>)) = 1
             /\ \A i \in q.io_mems :
                   Cardinality(CallsWith(log, "cpu_unregister_io_memory", i)) = 1
             /\ \A j \in 1..Len(log) :
                   /\ log[j].call = "munmap"
                        => \E m \in q.mmaps : log[j].arg = <<m.bar, m.off, m.len>>
                   /\ log[j].call = "cpu_unregister_io_memory"
                        => log[j].arg \in q.io_mems]_vars

(***************************************************************************)
(* The removal deadline under fairness.  A timer armed with qemu_mod_timer *)
(* is run by the main loop once its 30 s have passed unless it is deleted  *)
(* first: the lifecycle specification with weak fairness of the expiry.    *)
(* An expiry always ends the process, so it is a step that changes         *)
(* proc.aborted, and no other step of the process does.                    *)
(***************************************************************************)
\* what TimerFire does to the process
TimerExpiry ==
    \E t \in proc.timers :
        /\ ~proc.aborted
        /\ proc' = vfio_remove_abort([Fresh(proc) EXCEPT !.timers = @ \ {t}], t.dev)

SpecFair == Init /\ [][Next]_vars /\ WF_<<proc.aborted>>(TimerExpiry)

\* the last step received a removal request for device d, registered then
RemoveReceived(d) ==
    /\ ev.type = "netlink" /\ ev.dev = d
    /\ ~Dropped(NlEvent(ev))

\* device d has been detached and the timer it recorded is not armed
DetachedInTime(d) ==
    /\ ~proc.devs[d].attached
    /\ ~qemu_timer_pending(proc, proc.devs[d].remove_timer)

\* C35: with the deadline timer fair, a removal request received for a
\* registered device leads to the device being detached, the timer the
\* device recorded cancelled, or to the process having terminated: the
\* device does not stay attached for ever with the request outstanding.
C35_RemovalIsResolved ==
    \A d \in Devices :
        RemoveReceived(d) ~> (DetachedInTime(d) \/ proc.aborted)

\* the guest did not release the first device after a removal request and
\* the deadline ended the process
C35_DeadlineEndedProcess ==
    /\ ev.type = "timer" /\ ev.dev = 1
    /\ proc.aborted
    /\ proc.devs[1].attached /\ proc.devs[1].qemu.unplug >= 1
    /\ ev.arg = <<proc.devs[1].remove_timer>>

====
